---- MODULE Spec2Model ----
(***************************************************************************)
(* Token issuance and validation (internal/auth/jwt.go) and the credential *)
(* service built on it (internal/auth/service.go, repository.go).          *)
(*                                                                         *)
(* Time is counted in ticks, TicksPerSecond ticks to a second, so that the *)
(* truncation of a token's timestamps to whole seconds is visible.  Every  *)
(* handler reads the clock where the code calls time.Now(); the clock may  *)
(* advance between two reads of one call.                                  *)
(***************************************************************************)
EXTENDS Integers, FiniteSets, Sequences, TLC

----------------------------------------------------------------------------
(* Bounds of the model *)

TicksPerSecond == 2
MaxSmall == 3
MaxDelay == 2
MaxUses == 2
MaxLogins == 1
MaxCallers == 2
MaxLimit == 2
MaxWindow == 3
MaxClock == 6
MaxPanics == 3

----------------------------------------------------------------------------
(* Durations *)

Second == TicksPerSecond
Hour == 3600 * Second

refreshTokenTTL == 24 * 7 * Hour

AccessTTLs == {2 * Second, Hour}

----------------------------------------------------------------------------
(* Errors *)

NoError == "nil"
ErrInvalidToken == "invalid token"
ErrExpiredToken == "token expired"
ErrInvalidCredentials == "invalid credentials"
ErrUserExists == "user already exists"
ErrUserNotFound == "user not found"
\* Errors that are none of the service's own: a unique-index violation
\* reported by the database, any other failure of a store call, and bcrypt's
\* refusal of a password longer than 72 bytes.
ErrDuplicatedKey == "duplicate key value violates unique constraint"
ErrStoreFault == "store fault"
ErrPasswordTooLong == "bcrypt: password length exceeds 72 bytes"

----------------------------------------------------------------------------
(* State *)

VARIABLES
    now,             \* the wall clock, in ticks
    accessTokenTTL,  \* jwtService.accessTokenTTL, fixed at construction
    users,           \* the credential store: the rows of table users
    nextID,          \* how many identifiers uuid.New() has handed out, plus one
    last,            \* the last call: its operation, inputs and result
    wallet,          \* the tokens a client keeps from the responses it got
    inflight,        \* the calls in progress, one per caller
    rl,              \* the gateway's rateLimiter: requests, limit, window
    shadow,          \* a rateLimiter given the same Allow calls as rl and
                     \* never cleaned up
    admitted,        \* per key, the times of the Allow calls that returned
                     \* true, as far back as one window
    activeConnections  \* the gauge http_active_connections

\* The state of the gateway's middleware.
middleware == <<rl, shadow, admitted, activeConnections>>

vars == <<now, accessTokenTTL, users, nextID, last, wallet, inflight,
          middleware>>

\* A rateLimiter as NewRateLimiter returns it.
NewRateLimiter(limit, window) ==
    [requests |-> [k \in {} |-> <<>>], limit |-> limit, window |-> window]

\* The middleware before any request, where no request reaches it.
MiddlewareIdle ==
    /\ rl = NewRateLimiter(0, 0)
    /\ shadow = NewRateLimiter(0, 0)
    /\ admitted = [k \in {} |-> <<>>]
    /\ activeConnections = 0

\* The instants the clock is observed at: a short run of ticks after the
\* start, after one access-token lifetime and after one refresh-token
\* lifetime.
Horizons == {0, accessTokenTTL, refreshTokenTTL}
Times == UNION {{h + k : k \in 0..MaxSmall} : h \in Horizons}

----------------------------------------------------------------------------
(* Token Service *)

secret == "your-super-secret-jwt-key"
OtherSecret == "another-key"

HMACAlgs == {"HS256", "HS384", "HS512"}
\* Algorithms golang-jwt registers: the HMAC family, "none" and the
\* asymmetric ones (RS256 stands for them).
RegisteredAlgs == HMACAlgs \cup {"none", "RS256"}

\* jwt.NewNumericDate: the time truncated to jwt.TimePrecision (one second).
NumericDate(t) == t - (t % Second)

\* jwt.NewWithClaims(jwt.SigningMethodHS256, claims).SignedString(key).
\* A token string is modelled by what it decodes to; key is the key its
\* signature was computed with.
SignedString(alg, key, claims) ==
    [wf |-> TRUE, alg |-> alg, key |-> key,
     user_id |-> claims.user_id, type |-> claims.type,
     exp |-> claims.exp, iat |-> claims.iat, sub |-> claims.sub]

\* A string that is no JWT at all, the empty string among them.
Malformed ==
    [wf |-> FALSE, alg |-> "", key |-> "", user_id |-> "", type |-> "",
     exp |-> 0, iat |-> 0, sub |-> ""]

\* Mutant: only the registered subject is filled in, the user_id claim is not.
GenerateAccessTokenSubjectOnly(userID, t1, t2) ==
    SignedString("HS256", secret,
        [user_id |-> "", type |-> "access",
         exp |-> NumericDate(t1 + accessTokenTTL),
         iat |-> NumericDate(t2), sub |-> userID])

\* t1, t2: the two reads of time.Now() in the claims literal.
GenerateAccessToken(userID, t1, t2) ==
    SignedString("HS256", secret,
        [user_id |-> userID, type |-> "access",
         exp |-> NumericDate(t1 + accessTokenTTL),
         iat |-> NumericDate(t2), sub |-> userID])

GenerateRefreshToken(userID, t1, t2) ==
    SignedString("HS256", secret,
        [user_id |-> userID, type |-> "refresh",
         exp |-> NumericDate(t1 + refreshTokenTTL),
         iat |-> NumericDate(t2), sub |-> userID])

\* Mutant: the key function without the signing-method check.
KeyFuncNoMethodCheck(tok) == [key |-> secret, err |-> FALSE]

\* The key function given to jwt.ParseWithClaims: the secret for an HMAC
\* method, an error for any other.
KeyFunc(tok) ==
    IF tok.alg \in HMACAlgs
    THEN [key |-> secret, err |-> FALSE]
    ELSE [key |-> "", err |-> TRUE]

\* Mutant: a signature check that accepts a signature made with any key.
VerifyAnyKey(tok, key) == tok.alg \in HMACAlgs

\* SigningMethod.Verify with a []byte key: an HMAC method accepts the
\* signature made with the same key; "none" and the asymmetric methods
\* reject a []byte key whatever the signature.
Verify(tok, key) == tok.alg \in HMACAlgs /\ tok.key = key

\* Mutant: a token is still good at the instant of its expiry.
ValidatorValidateInclusive(tok, t) == t <= tok.exp

\* The default jwt.Validator: exp, when present, must be after the current
\* time (no leeway); iat is not verified.
ValidatorValidate(tok, t) == t < tok.exp

\* jwt.ParseWithClaims (golang-jwt/jwt v5): segments and JSON, the signing
\* method named by the header, the key function, the signature, and then the
\* registered claims.  keyed: the key function returned the secret.
ParseWithClaims(tok, t) ==
    IF ~tok.wf THEN [err |-> TRUE, valid |-> FALSE, keyed |-> FALSE]
    ELSE IF tok.alg \notin RegisteredAlgs
    THEN [err |-> TRUE, valid |-> FALSE, keyed |-> FALSE]
    ELSE LET k == KeyFunc(tok) IN
         IF k.err THEN [err |-> TRUE, valid |-> FALSE, keyed |-> FALSE]
         ELSE IF ~Verify(tok, k.key)
         THEN [err |-> TRUE, valid |-> FALSE, keyed |-> TRUE]
         ELSE IF ~ValidatorValidate(tok, t)
         THEN [err |-> TRUE, valid |-> FALSE, keyed |-> TRUE]
         ELSE [err |-> FALSE, valid |-> TRUE, keyed |-> TRUE]

\* Mutant: no check of the token's kind.
validateTokenNoTypeCheck(tok, tokenType, tParse, tCheck) ==
    LET token == ParseWithClaims(tok, tParse) IN
    IF token.err THEN [userID |-> "", err |-> ErrInvalidToken]
    ELSE IF ~token.valid THEN [userID |-> "", err |-> ErrInvalidToken]
    ELSE IF tok.exp < tCheck THEN [userID |-> "", err |-> ErrExpiredToken]
    ELSE [userID |-> tok.user_id, err |-> NoError]

\* Mutant: the explicit expiry check moved before the check of the kind.
validateTokenExpiryBeforeType(tok, tokenType, tParse, tCheck) ==
    LET token == ParseWithClaims(tok, tParse) IN
    IF token.err THEN [userID |-> "", err |-> ErrInvalidToken]
    ELSE IF ~token.valid THEN [userID |-> "", err |-> ErrInvalidToken]
    ELSE IF tok.exp < tCheck THEN [userID |-> "", err |-> ErrExpiredToken]
    ELSE IF tok.type # tokenType THEN [userID |-> "", err |-> ErrInvalidToken]
    ELSE [userID |-> tok.user_id, err |-> NoError]

\* Mutant: a revocation check; the tokens of a client that logged out are
\* refused.
validateTokenRevoked(tok, tokenType, tParse, tCheck) ==
    LET token == ParseWithClaims(tok, tParse) IN
    IF token.err THEN [userID |-> "", err |-> ErrInvalidToken]
    ELSE IF ~token.valid THEN [userID |-> "", err |-> ErrInvalidToken]
    ELSE IF tok.type # tokenType THEN [userID |-> "", err |-> ErrInvalidToken]
    ELSE IF tok.exp < tCheck THEN [userID |-> "", err |-> ErrExpiredToken]
    ELSE IF wallet.loggedOut /\ tok \in {wallet.access, wallet.refresh}
    THEN [userID |-> "", err |-> ErrInvalidToken]
    ELSE [userID |-> tok.user_id, err |-> NoError]

\* tParse: the clock when ParseWithClaims validates the claims;
\* tCheck: the clock at the explicit expiry check (tParse <= tCheck).
validateToken(tok, tokenType, tParse, tCheck) ==
    LET token == ParseWithClaims(tok, tParse) IN
    IF token.err THEN [userID |-> "", err |-> ErrInvalidToken]
    ELSE IF ~token.valid THEN [userID |-> "", err |-> ErrInvalidToken]
    ELSE IF tok.type # tokenType THEN [userID |-> "", err |-> ErrInvalidToken]
    ELSE IF tok.exp < tCheck THEN [userID |-> "", err |-> ErrExpiredToken]
    ELSE [userID |-> tok.user_id, err |-> NoError]

ValidateAccessToken(tok, tParse, tCheck) ==
    validateToken(tok, "access", tParse, tCheck)

ValidateRefreshToken(tok, tParse, tCheck) ==
    validateToken(tok, "refresh", tParse, tCheck)

----------------------------------------------------------------------------
(* Credential Store *)

\* No row and no response.
NoUser == [id |-> ""]
NoResponse == [accessToken |-> Malformed, refreshToken |-> Malformed,
               user |-> NoUser, expiresIn |-> 0]

\* The zero time.Time of a row that never logged in.
ZeroTime == -1

\* Identifiers uuid.New() hands out, in order: each is new.
UUIDs == <<"u1", "u2">>

\* repository.GetByEmail: the row with this email, ErrUserNotFound when
\* there is none, the database's error when the query itself fails.
GetByEmail(db, email, fault) ==
    IF fault THEN [user |-> NoUser, err |-> ErrStoreFault]
    ELSE IF \E u \in db : u.email = email
    THEN [user |-> CHOOSE u \in db : u.email = email, err |-> NoError]
    ELSE [user |-> NoUser, err |-> ErrUserNotFound]

\* The primary key and the unique indexes on email and username, as they
\* stand against the rows other than the one being written.
Conflicts(db, user) ==
    \E u \in db : u.id # user.id
        /\ (u.email = user.email \/ u.username = user.username)

\* Mutant: a store without the unique indexes; only the primary key is
\* checked.
CreateNoUniqueIndex(db, user, fault) ==
    IF fault THEN [db |-> db, err |-> ErrStoreFault]
    ELSE IF \E u \in db : u.id = user.id
    THEN [db |-> db, err |-> ErrDuplicatedKey]
    ELSE [db |-> db \cup {user}, err |-> NoError]

\* repository.Create: INSERT; the database refuses a second row with the
\* same id, email or username.
Create(db, user, fault) ==
    IF fault THEN [db |-> db, err |-> ErrStoreFault]
    ELSE IF (\E u \in db : u.id = user.id) \/ Conflicts(db, user)
    THEN [db |-> db, err |-> ErrDuplicatedKey]
    ELSE [db |-> db \cup {user}, err |-> NoError]

\* Mutant: the row is written as a new row next to the one it was read
\* from.
UpdateAppends(db, user, fault) ==
    IF fault THEN [db |-> db, err |-> ErrStoreFault]
    ELSE [db |-> db \cup {user}, err |-> NoError]

\* repository.Update: gorm's Save, which writes every field of the row with
\* this primary key and inserts the row when there is none.
Update(db, user, fault) ==
    IF fault THEN [db |-> db, err |-> ErrStoreFault]
    ELSE IF Conflicts(db, user) THEN [db |-> db, err |-> ErrDuplicatedKey]
    ELSE [db |-> {u \in db : u.id # user.id} \cup {user}, err |-> NoError]

\* Mutant: the lookup as cmd/auth-service/auth_service.go has it, which
\* returns gorm's own error for a missing row.
GetByIDRaw(db, id, fault) ==
    IF fault THEN [user |-> NoUser, err |-> ErrStoreFault]
    ELSE IF \E u \in db : u.id = id
    THEN [user |-> CHOOSE u \in db : u.id = id, err |-> NoError]
    ELSE [user |-> NoUser, err |-> "record not found"]

\* repository.GetByID: the row with this primary key, ErrUserNotFound when
\* there is none, the database's error when the query itself fails.
GetByID(db, id, fault) ==
    IF fault THEN [user |-> NoUser, err |-> ErrStoreFault]
    ELSE IF \E u \in db : u.id = id
    THEN [user |-> CHOOSE u \in db : u.id = id, err |-> NoError]
    ELSE [user |-> NoUser, err |-> ErrUserNotFound]

\* repository.Delete: DELETE of the row with this primary key; no row, no
\* error.
Delete(db, id, fault) ==
    IF fault THEN [db |-> db, err |-> ErrStoreFault]
    ELSE [db |-> {u \in db : u.id # id}, err |-> NoError]

----------------------------------------------------------------------------
(* Credential Service *)

\* A password of more than 72 bytes.
LongPassword == "a password of more than 72 bytes"

\* bcrypt.GenerateFromPassword: a salted one-way hash, refused for a
\* password longer than 72 bytes.
GenerateFromPassword(password) ==
    IF password = LongPassword
    THEN [hash |-> <<>>, err |-> ErrPasswordTooLong]
    ELSE [hash |-> <<"bcrypt", password>>, err |-> NoError]

\* bcrypt.CompareHashAndPassword(hash, password) = nil.
CompareHashAndPassword(hash, password) ==
    password # LongPassword /\ hash = <<"bcrypt", password>>

\* Mutant: the response carries the two tokens in each other's field.
RegisterTokensSwapped(db, req, fault, id, t1, t2) ==
    IF GetByEmail(db, req.email, fault.lookup).err = NoError
    THEN [err |-> ErrUserExists, resp |-> NoResponse, db |-> db, creates |-> 0]
    ELSE LET hashedPassword == GenerateFromPassword(req.password) IN
    IF hashedPassword.err # NoError
    THEN [err |-> hashedPassword.err, resp |-> NoResponse, db |-> db,
          creates |-> 0]
    ELSE LET user == [id |-> id, email |-> req.email,
                      username |-> req.username,
                      passwordHash |-> hashedPassword.hash,
                      isActive |-> TRUE, lastLoginAt |-> ZeroTime]
             created == Create(db, user, fault.write)
         IN
    IF created.err # NoError
    THEN [err |-> created.err, resp |-> NoResponse, db |-> created.db,
          creates |-> 1]
    ELSE [err |-> NoError,
          resp |-> [accessToken |-> GenerateRefreshToken(user.id, t2, t2),
                    refreshToken |-> GenerateAccessToken(user.id, t2, t2),
                    user |-> user, expiresIn |-> 3600],
          db |-> created.db, creates |-> 1]

\* Mutant: no lookup of the email; the store's unique index is the only
\* check.
RegisterNoLookup(db, req, fault, id, t1, t2) ==
    LET user == [id |-> id, email |-> req.email, username |-> req.username,
                 passwordHash |-> GenerateFromPassword(req.password).hash,
                 isActive |-> TRUE, lastLoginAt |-> ZeroTime]
        created == Create(db, user, fault.write)
    IN  IF GenerateFromPassword(req.password).err # NoError
        THEN [err |-> ErrPasswordTooLong, resp |-> NoResponse, db |-> db,
              creates |-> 0]
        ELSE IF created.err # NoError
        THEN [err |-> created.err, resp |-> NoResponse, db |-> created.db,
              creates |-> 1]
        ELSE [err |-> NoError,
              resp |-> [accessToken |-> GenerateAccessToken(user.id, t2, t2),
                        refreshToken |-> GenerateRefreshToken(user.id, t2, t2),
                        user |-> user, expiresIn |-> 3600],
              db |-> created.db, creates |-> 1]

\* Mutant: the error of Create is dropped and the tokens are generated all
\* the same.
RegisterIgnoresCreateError(db, req, fault, id, t1, t2) ==
    IF GetByEmail(db, req.email, fault.lookup).err = NoError
    THEN [err |-> ErrUserExists, resp |-> NoResponse, db |-> db, creates |-> 0]
    ELSE LET hashedPassword == GenerateFromPassword(req.password) IN
    IF hashedPassword.err # NoError
    THEN [err |-> hashedPassword.err, resp |-> NoResponse, db |-> db,
          creates |-> 0]
    ELSE LET user == [id |-> id, email |-> req.email,
                      username |-> req.username,
                      passwordHash |-> hashedPassword.hash,
                      isActive |-> TRUE, lastLoginAt |-> ZeroTime]
             created == Create(db, user, fault.write)
         IN
    [err |-> NoError,
     resp |-> [accessToken |-> GenerateAccessToken(user.id, t2, t2),
               refreshToken |-> GenerateRefreshToken(user.id, t2, t2),
               user |-> user, expiresIn |-> 3600],
     db |-> created.db, creates |-> 1]

\* What a TokenService may answer to a Generate call: the token, or an
\* error in place of the access or of the refresh token.  The jwtService of
\* jwt.go always answers with the token.
ErrTokenService == "token service error"
TokenFaults == {"none", "access", "refresh"}

\* Service.Register on store db, with a TokenService that fails as
\* tokenFault says.  fault: which store calls fail; id: what uuid.New()
\* returns; t1: the clock when the row is built, t2: when the tokens are
\* generated.  creates: the Create calls made.
RegisterWith(db, req, fault, tokenFault, id, t1, t2) ==
    IF GetByEmail(db, req.email, fault.lookup).err = NoError
    THEN [err |-> ErrUserExists, resp |-> NoResponse, db |-> db, creates |-> 0]
    ELSE LET hashedPassword == GenerateFromPassword(req.password) IN
    IF hashedPassword.err # NoError
    THEN [err |-> hashedPassword.err, resp |-> NoResponse, db |-> db,
          creates |-> 0]
    ELSE LET user == [id |-> id, email |-> req.email,
                      username |-> req.username,
                      passwordHash |-> hashedPassword.hash,
                      isActive |-> TRUE, lastLoginAt |-> ZeroTime]
             created == Create(db, user, fault.write)
         IN
    IF created.err # NoError
    THEN [err |-> created.err, resp |-> NoResponse, db |-> created.db,
          creates |-> 1]
    ELSE IF tokenFault # "none"
    THEN [err |-> ErrTokenService, resp |-> NoResponse, db |-> created.db,
          creates |-> 1]
    ELSE [err |-> NoError,
          resp |-> [accessToken |-> GenerateAccessToken(user.id, t2, t2),
                    refreshToken |-> GenerateRefreshToken(user.id, t2, t2),
                    user |-> user, expiresIn |-> 3600],
          db |-> created.db, creates |-> 1]

\* Service.Register with the jwtService as its TokenService.
Register(db, req, fault, id, t1, t2) ==
    RegisterWith(db, req, fault, "none", id, t1, t2)

\* Mutant: an unknown email is reported as ErrUserNotFound.
LoginRevealsUnknownEmail(db, req, fault, t1, t2) ==
    LET found == GetByEmail(db, req.email, fault.lookup) IN
    IF found.err # NoError
    THEN [err |-> ErrUserNotFound, resp |-> NoResponse, db |-> db,
          updates |-> 0]
    ELSE IF ~CompareHashAndPassword(found.user.passwordHash, req.password)
    THEN [err |-> ErrInvalidCredentials, resp |-> NoResponse, db |-> db,
          updates |-> 0]
    ELSE LET user == [found.user EXCEPT !.lastLoginAt = t1]
             saved == Update(db, user, fault.write)
         IN [err |-> NoError,
             resp |-> [accessToken |-> GenerateAccessToken(user.id, t2, t2),
                       refreshToken |-> GenerateRefreshToken(user.id, t2, t2),
                       user |-> user, expiresIn |-> 3600],
             db |-> saved.db, updates |-> 1]

\* Mutant: the error of the last-login Update is returned to the caller.
LoginReturnsUpdateError(db, req, fault, t1, t2) ==
    LET found == GetByEmail(db, req.email, fault.lookup) IN
    IF found.err # NoError
    THEN [err |-> ErrInvalidCredentials, resp |-> NoResponse, db |-> db,
          updates |-> 0]
    ELSE IF ~CompareHashAndPassword(found.user.passwordHash, req.password)
    THEN [err |-> ErrInvalidCredentials, resp |-> NoResponse, db |-> db,
          updates |-> 0]
    ELSE LET user == [found.user EXCEPT !.lastLoginAt = t1]
             saved == Update(db, user, fault.write)
         IN IF saved.err # NoError
            THEN [err |-> saved.err, resp |-> NoResponse, db |-> saved.db,
                  updates |-> 1]
            ELSE [err |-> NoError,
                  resp |-> [accessToken |-> GenerateAccessToken(user.id, t2, t2),
                            refreshToken |-> GenerateRefreshToken(user.id, t2, t2),
                            user |-> user, expiresIn |-> 3600],
                  db |-> saved.db, updates |-> 1]

\* Mutant: the last login is stamped as soon as the row is found, before
\* the password is compared.
LoginStampsBeforeCheck(db, req, fault, t1, t2) ==
    LET found == GetByEmail(db, req.email, fault.lookup) IN
    IF found.err # NoError
    THEN [err |-> ErrInvalidCredentials, resp |-> NoResponse, db |-> db,
          updates |-> 0]
    ELSE LET user == [found.user EXCEPT !.lastLoginAt = t1]
             saved == Update(db, user, fault.write)
         IN
    IF ~CompareHashAndPassword(found.user.passwordHash, req.password)
    THEN [err |-> ErrInvalidCredentials, resp |-> NoResponse, db |-> saved.db,
          updates |-> 1]
    ELSE [err |-> NoError,
          resp |-> [accessToken |-> GenerateAccessToken(user.id, t2, t2),
                    refreshToken |-> GenerateRefreshToken(user.id, t2, t2),
                    user |-> user, expiresIn |-> 3600],
          db |-> saved.db, updates |-> 1]

\* Service.Login on store db.  t1: the clock read for LastLoginAt, t2: the
\* clock when the tokens are generated.  updates: the Update calls made.
Login(db, req, fault, t1, t2) ==
    LET found == GetByEmail(db, req.email, fault.lookup) IN
    IF found.err # NoError
    THEN [err |-> ErrInvalidCredentials, resp |-> NoResponse, db |-> db,
          updates |-> 0]
    ELSE IF ~CompareHashAndPassword(found.user.passwordHash, req.password)
    THEN [err |-> ErrInvalidCredentials, resp |-> NoResponse, db |-> db,
          updates |-> 0]
    ELSE LET user == [found.user EXCEPT !.lastLoginAt = t1]
             saved == Update(db, user, fault.write)
         IN [err |-> NoError,
             resp |-> [accessToken |-> GenerateAccessToken(user.id, t2, t2),
                       refreshToken |-> GenerateRefreshToken(user.id, t2, t2),
                       user |-> user, expiresIn |-> 3600],
             db |-> saved.db, updates |-> 1]

\* Mutant: the access token is generated for the token's user id without
\* looking the user up.
RefreshTokenNoLookup(db, refreshToken, fault, t1, t2, t3) ==
    LET verdict == ValidateRefreshToken(refreshToken, t1, t2) IN
    IF verdict.err # NoError
    THEN [err |-> verdict.err, resp |-> NoResponse, verdict |-> verdict,
          lookups |-> 0, generated |-> <<>>]
    ELSE [err |-> NoError,
          resp |-> [accessToken |-> GenerateAccessToken(verdict.userID, t3, t3),
                    refreshToken |-> Malformed,
                    user |-> [id |-> verdict.userID], expiresIn |-> 3600],
          verdict |-> verdict, lookups |-> 0, generated |-> <<"access">>]

\* Mutant: the refresh token is rotated, a new one is returned with the
\* access token.
RefreshTokenRotates(db, refreshToken, fault, t1, t2, t3) ==
    LET verdict == ValidateRefreshToken(refreshToken, t1, t2) IN
    IF verdict.err # NoError
    THEN [err |-> verdict.err, resp |-> NoResponse, verdict |-> verdict,
          lookups |-> 0, generated |-> <<>>]
    ELSE LET found == GetByID(db, verdict.userID, fault) IN
    IF found.err # NoError
    THEN [err |-> ErrUserNotFound, resp |-> NoResponse, verdict |-> verdict,
          lookups |-> 1, generated |-> <<>>]
    ELSE [err |-> NoError,
          resp |-> [accessToken |-> GenerateAccessToken(found.user.id, t3, t3),
                    refreshToken |-> GenerateRefreshToken(found.user.id, t3, t3),
                    user |-> found.user, expiresIn |-> 3600],
          verdict |-> verdict, lookups |-> 1,
          generated |-> <<"access", "refresh">>]

\* Mutant: a refresh token is good for one renewal only.
RefreshTokenSingleUse(db, refreshToken, fault, t1, t2, t3) ==
    LET verdict == ValidateRefreshToken(refreshToken, t1, t2) IN
    IF verdict.err # NoError
    THEN [err |-> verdict.err, resp |-> NoResponse, verdict |-> verdict,
          lookups |-> 0, generated |-> <<>>]
    ELSE IF refreshToken = wallet.refresh /\ wallet.accepted > 0
    THEN [err |-> ErrInvalidToken, resp |-> NoResponse, verdict |-> verdict,
          lookups |-> 0, generated |-> <<>>]
    ELSE LET found == GetByID(db, verdict.userID, fault) IN
    IF found.err # NoError
    THEN [err |-> ErrUserNotFound, resp |-> NoResponse, verdict |-> verdict,
          lookups |-> 1, generated |-> <<>>]
    ELSE [err |-> NoError,
          resp |-> [accessToken |-> GenerateAccessToken(found.user.id, t3, t3),
                    refreshToken |-> Malformed,
                    user |-> found.user, expiresIn |-> 3600],
          verdict |-> verdict, lookups |-> 1, generated |-> <<"access">>]

\* Service.RefreshToken on store db.  t1, t2: the clock at the two checks of
\* the token's expiry; t3: the clock when the access token is generated.
\* verdict: what ValidateRefreshToken returned; lookups: the GetByID calls
\* made; generated: the kinds of token generated, in order.
RefreshToken(db, refreshToken, fault, t1, t2, t3) ==
    LET verdict == ValidateRefreshToken(refreshToken, t1, t2) IN
    IF verdict.err # NoError
    THEN [err |-> verdict.err, resp |-> NoResponse, verdict |-> verdict,
          lookups |-> 0, generated |-> <<>>]
    ELSE LET found == GetByID(db, verdict.userID, fault) IN
    IF found.err # NoError
    THEN [err |-> ErrUserNotFound, resp |-> NoResponse, verdict |-> verdict,
          lookups |-> 1, generated |-> <<>>]
    ELSE [err |-> NoError,
          resp |-> [accessToken |-> GenerateAccessToken(found.user.id, t3, t3),
                    refreshToken |-> Malformed,
                    user |-> found.user, expiresIn |-> 3600],
          verdict |-> verdict, lookups |-> 1, generated |-> <<"access">>]

\* Mutant: the user is looked up from the token's claims before the token
\* is validated.
ValidateTokenLookupFirst(db, token, fault, t1, t2) ==
    LET found == GetByID(db, token.user_id, fault)
        verdict == ValidateAccessToken(token, t1, t2)
    IN  IF verdict.err # NoError
        THEN [err |-> verdict.err, user |-> NoUser, verdict |-> verdict,
              lookups |-> 1]
        ELSE [err |-> found.err, user |-> found.user, verdict |-> verdict,
              lookups |-> 1]

\* Service.ValidateToken on store db: the row under the token's user id, or
\* the token's or the lookup's error.
ValidateToken(db, token, fault, t1, t2) ==
    LET verdict == ValidateAccessToken(token, t1, t2) IN
    IF verdict.err # NoError
    THEN [err |-> verdict.err, user |-> NoUser, verdict |-> verdict,
          lookups |-> 0]
    ELSE LET found == GetByID(db, verdict.userID, fault) IN
         [err |-> found.err, user |-> found.user, verdict |-> verdict,
          lookups |-> 1]

----------------------------------------------------------------------------
(* Inputs *)

UserIDs == {"", "u1"}
TokenTypes == {"access", "refresh"}
Algs == {"HS256", "HS512", "none", "RS256", "HS999"}
Keys == {secret, OtherSecret}

\* Well-formed tokens a caller may present without having been issued them.
\* Their expiry is early (one second after the start) or late (one second
\* after a refresh-token lifetime).
CraftedExpiries == {Second, refreshTokenTTL + Second}
Crafted ==
    {SignedString(a, k, [user_id |-> "u1", type |-> ty, exp |-> e,
                         iat |-> 0, sub |-> "u1"]) :
        a \in Algs, k \in Keys, ty \in TokenTypes, e \in CraftedExpiries}

\* How far the clock may advance between two reads of it within one call.
Delays == {0, MaxDelay}

\* What a caller may present: the token of the last call (one it was issued,
\* or one it presented before), a crafted token, or a malformed string.
HeldTokens ==
    IF last.op \in {"GenerateAccessToken", "GenerateRefreshToken",
                   "ValidateAccessToken", "ValidateRefreshToken"}
    THEN {last.token} ELSE {}
Presentable == HeldTokens \cup Crafted \cup {Malformed}

\* The user id a presented token was generated for, when the caller got it
\* from a Generate call.
NotMinted == "(not minted)"
MintedFor(tok) ==
    IF tok \in HeldTokens THEN last.mintedFor ELSE NotMinted

\* The reading of the clock a presented token's expiry was computed from,
\* when the caller got the token from a Generate call.
IssuedAt(tok) ==
    IF tok \in HeldTokens THEN last.issued ELSE ZeroTime

\* What a client holds of the first response it was given: the two tokens,
\* the identifier they were issued for, how many times RefreshToken has
\* accepted the refresh token, how many Login calls have succeeded since it
\* first did, and whether Logout has been called since.
NoWallet ==
    [access |-> Malformed, refresh |-> Malformed, owner |-> "",
     accepted |-> 0, logins |-> 0, loggedOut |-> FALSE]

\* The concurrent callers of Register, none of them in a call.
Callers == 1..MaxCallers
Idle == [pc |-> "idle", req |-> [email |-> "", username |-> "", password |-> ""],
         user |-> NoUser, err |-> NoError, resp |-> NoResponse]
NoCalls == [p \in Callers |-> Idle]

----------------------------------------------------------------------------
(* Actions *)

Init ==
    /\ now = 0
    /\ accessTokenTTL \in AccessTTLs
    /\ users = {}
    /\ nextID = 1
    /\ last = [op |-> "none"]
    /\ wallet = NoWallet
    /\ inflight = NoCalls
    /\ MiddlewareIdle

\* Time passes between calls.
Tick ==
    /\ \E t \in Times : t > now /\ now' = t
    /\ UNCHANGED <<accessTokenTTL, users, nextID, last, wallet, inflight, middleware>>

CallGenerateAccessToken ==
    \E userID \in UserIDs, d \in Delays :
        /\ now + d \in Times
        /\ last' = [op |-> "GenerateAccessToken", userID |-> userID,
                    token |-> GenerateAccessToken(userID, now, now + d),
                    mintedFor |-> userID, issued |-> now, err |-> NoError]
        /\ now' = now + d
        /\ UNCHANGED <<accessTokenTTL, users, nextID, wallet, inflight, middleware>>

CallGenerateRefreshToken ==
    \E userID \in UserIDs, d \in Delays :
        /\ now + d \in Times
        /\ last' = [op |-> "GenerateRefreshToken", userID |-> userID,
                    token |-> GenerateRefreshToken(userID, now, now + d),
                    mintedFor |-> userID, issued |-> now, err |-> NoError]
        /\ now' = now + d
        /\ UNCHANGED <<accessTokenTTL, users, nextID, wallet, inflight, middleware>>

CallValidateAccessToken ==
    \E tok \in Presentable, d \in Delays :
        /\ now + d \in Times
        /\ LET r == ValidateAccessToken(tok, now, now + d) IN
            last' = [op |-> "ValidateAccessToken", token |-> tok,
                     mintedFor |-> MintedFor(tok), issued |-> IssuedAt(tok),
                     tParse |-> now, tCheck |-> now + d,
                     keyed |-> ParseWithClaims(tok, now).keyed,
                     userID |-> r.userID, err |-> r.err]
        /\ now' = now + d
        /\ UNCHANGED <<accessTokenTTL, users, nextID, wallet, inflight, middleware>>

CallValidateRefreshToken ==
    \E tok \in Presentable, d \in Delays :
        /\ now + d \in Times
        /\ LET r == ValidateRefreshToken(tok, now, now + d) IN
            last' = [op |-> "ValidateRefreshToken", token |-> tok,
                     mintedFor |-> MintedFor(tok), issued |-> IssuedAt(tok),
                     tParse |-> now, tCheck |-> now + d,
                     keyed |-> ParseWithClaims(tok, now).keyed,
                     userID |-> r.userID, err |-> r.err]
        /\ now' = now + d
        /\ UNCHANGED <<accessTokenTTL, users, nextID, wallet, inflight, middleware>>

TokenNext ==
    \/ Tick
    \/ CallGenerateAccessToken
    \/ CallGenerateRefreshToken
    \/ CallValidateAccessToken
    \/ CallValidateRefreshToken

\* The Token Service called directly.
TokenSpec == Init /\ [][TokenNext]_vars

----------------------------------------------------------------------------
(* The Credential Service on its store *)

Emails == {"a@x", "b@x"}
Usernames == {"ann", "bob"}
Passwords == {"password-1", "password-2", LongPassword}

RegisterRequests == [email : Emails, username : Usernames, password : Passwords]
LoginRequests == [email : Emails, password : Passwords]

\* Which store calls of one handler fail: its lookup, its write.
Faults == [lookup : BOOLEAN, write : BOOLEAN]

\* The handlers of the service are taken at one reading of the clock, and
\* between them the clock moves to one second after the start, after an
\* access-token lifetime or after a refresh-token lifetime.
Elapse ==
    /\ \E h \in Horizons : h + Second > now /\ now' = h + Second
    /\ UNCHANGED <<accessTokenTTL, users, nextID, last, wallet, inflight, middleware>>

CallRegister ==
    \E req \in RegisterRequests, fault \in Faults :
        /\ nextID <= Len(UUIDs)
        /\ LET r == Register(users, req, fault, UUIDs[nextID], now, now) IN
            /\ users' = r.db
            /\ nextID' = IF r.err = NoError THEN nextID + 1 ELSE nextID
            /\ last' = [op |-> "Register", req |-> req, fault |-> fault,
                        before |-> users, after |-> r.db, calls |-> r.creates,
                        err |-> r.err, resp |-> r.resp, tDone |-> now]
        /\ UNCHANGED <<now, accessTokenTTL, wallet, inflight, middleware>>

CallLogin ==
    \E req \in LoginRequests, fault \in Faults :
        /\ LET r == Login(users, req, fault, now, now) IN
            /\ users' = r.db
            /\ last' = [op |-> "Login", req |-> req, fault |-> fault,
                        before |-> users, after |-> r.db, calls |-> r.updates,
                        err |-> r.err, resp |-> r.resp, tDone |-> now]
        /\ UNCHANGED <<now, accessTokenTTL, nextID, wallet, inflight, middleware>>

Next ==
    \/ Elapse
    \/ CallRegister
    \/ CallLogin

Spec == Init /\ [][Next]_vars

----------------------------------------------------------------------------
(* A client's session with the Credential Service *)

NoFault == [lookup |-> FALSE, write |-> FALSE]

\* The client whose session is followed, and a second user next to it.
Client == "a@x"
SessionRegisterRequests ==
    {[email |-> Client, username |-> "ann", password |-> "password-1"],
     [email |-> "b@x", username |-> "bob", password |-> "password-2"]}
SessionLoginRequests ==
    {[email |-> r.email, password |-> r.password] :
        r \in {x \in SessionRegisterRequests : x.email = Client}}

\* Tokens presented without having been issued: not expired and signed with
\* another secret.
SessionCrafted ==
    {c \in Crafted : c.alg = "HS256" /\ c.key = OtherSecret /\ c.exp # Second}
\* What the client presents: a token it holds (a malformed string while it
\* holds none) or a forged one.
SessionTokens == {wallet.access, wallet.refresh} \cup SessionCrafted

Min(a, b) == IF a <= b THEN a ELSE b

\* The client keeps the tokens of the first successful response it is given.
Keep(w, r) ==
    IF r.err # NoError \/ w # NoWallet \/ r.resp.user.email # Client THEN w
    ELSE [access |-> r.resp.accessToken, refresh |-> r.resp.refreshToken,
          owner |-> r.resp.user.id, accepted |-> 0, logins |-> 0,
          loggedOut |-> FALSE]

SessionRegister ==
    \E req \in SessionRegisterRequests :
        /\ nextID <= Len(UUIDs)
        /\ LET r == Register(users, req, NoFault, UUIDs[nextID], now, now) IN
            /\ users' = r.db
            /\ nextID' = IF r.err = NoError THEN nextID + 1 ELSE nextID
            /\ last' = [op |-> "Register", req |-> req, fault |-> NoFault,
                        before |-> users, after |-> r.db, calls |-> r.creates,
                        err |-> r.err, resp |-> r.resp, tDone |-> now]
            /\ wallet' = Keep(wallet, r)
        /\ UNCHANGED <<now, accessTokenTTL, inflight, middleware>>

SessionLogin ==
    \E req \in SessionLoginRequests :
        /\ LET r == Login(users, req, NoFault, now, now) IN
            /\ users' = r.db
            /\ last' = [op |-> "Login", req |-> req, fault |-> NoFault,
                        before |-> users, after |-> r.db, calls |-> r.updates,
                        err |-> r.err, resp |-> r.resp, tDone |-> now]
            /\ wallet' =
                 IF r.err = NoError /\ wallet.accepted > 0
                 THEN [wallet EXCEPT !.logins = Min(@ + 1, MaxLogins)]
                 ELSE Keep(wallet, r)
        /\ UNCHANGED <<now, accessTokenTTL, nextID, inflight, middleware>>

\* fault: the lookup the call made failed; held: the wallet as it was when
\* the call was made.
CallRefreshToken ==
    \E tok \in SessionTokens, fault \in BOOLEAN :
        /\ LET r == RefreshToken(users, tok, fault, now, now, now) IN
            /\ last' = [op |-> "RefreshToken", token |-> tok,
                        fault |-> fault /\ r.lookups > 0,
                        before |-> users, after |-> users,
                        calls |-> r.lookups, generated |-> r.generated,
                        verdict |-> r.verdict, err |-> r.err,
                        resp |-> r.resp, user |-> r.resp.user,
                        tDone |-> now, held |-> wallet]
            /\ wallet' =
                 IF r.err = NoError /\ tok = wallet.refresh
                 THEN [wallet EXCEPT !.accepted = Min(@ + 1, MaxUses)]
                 ELSE wallet
        /\ UNCHANGED <<now, accessTokenTTL, users, nextID, inflight, middleware>>

CallValidateToken ==
    \E tok \in SessionTokens, fault \in BOOLEAN :
        /\ LET r == ValidateToken(users, tok, fault, now, now) IN
            last' = [op |-> "ValidateToken", token |-> tok,
                     fault |-> fault /\ r.lookups > 0,
                     before |-> users, after |-> users,
                     calls |-> r.lookups, generated |-> <<>>,
                     verdict |-> r.verdict, err |-> r.err,
                     resp |-> NoResponse, user |-> r.user,
                     tDone |-> now, held |-> wallet]
        /\ UNCHANGED <<now, accessTokenTTL, users, nextID, wallet, inflight, middleware>>

\* An account is removed from the store.
CallDelete ==
    \E id \in {u.id : u \in users} :
        /\ users' = Delete(users, id, FALSE).db
        /\ last' = [op |-> "Delete", id |-> id]
        /\ UNCHANGED <<now, accessTokenTTL, nextID, wallet, inflight, middleware>>

\* GRPCServer.Logout and GRPCServer.ChangePassword: placeholders that answer
\* success and touch neither the store nor any token.
CallLogout ==
    /\ wallet # NoWallet
    /\ last' = [op |-> "Logout"]
    /\ wallet' = [wallet EXCEPT !.loggedOut = TRUE]
    /\ UNCHANGED <<now, accessTokenTTL, users, nextID, inflight, middleware>>

CallChangePassword ==
    /\ wallet # NoWallet
    /\ last' = [op |-> "ChangePassword"]
    /\ UNCHANGED <<now, accessTokenTTL, users, nextID, wallet, inflight, middleware>>

SessionNext ==
    \/ Elapse
    \/ SessionRegister
    \/ SessionLogin
    \/ CallRefreshToken
    \/ CallValidateToken
    \/ CallDelete
    \/ CallLogout
    \/ CallChangePassword

SessionSpec == Init /\ [][SessionNext]_vars

----------------------------------------------------------------------------
(* The Token Service under every configuration *)

\* Durations NewJWTService is given without complaint besides the usual
\* ones: zero and half a second (config.Load reads jwt.expiration_time as it
\* stands).
AcceptedTTLs == AccessTTLs \cup {0, Second \div 2}

ConfigInit ==
    /\ now = 0
    /\ accessTokenTTL \in AcceptedTTLs
    /\ users = {}
    /\ nextID = 1
    /\ last = [op |-> "none"]
    /\ wallet = NoWallet
    /\ inflight = NoCalls
    /\ MiddlewareIdle

ConfigNext ==
    \/ Tick
    \/ CallGenerateAccessToken
    \/ CallGenerateRefreshToken

ConfigSpec == ConfigInit /\ [][ConfigNext]_vars

----------------------------------------------------------------------------
(* Concurrent calls of Register for one email *)

\* What uuid.New() returns to a caller: an identifier no other caller gets.
CallerID(p) == "r" \o ToString(p)

\* Requests for the client's email, under either username and password.
RaceRequests ==
    {r \in RegisterRequests : r.email = Client /\ r.password # LongPassword}

\* Service.Register up to its Create call, for a request out of requests:
\* the lookup of the email, the hashing of the password and the building of
\* the row.
RegisterLookupFrom(p, requests) ==
    /\ inflight[p].pc = "idle"
    /\ \E req \in requests :
        LET found == GetByEmail(users, req.email, FALSE)
            hashedPassword == GenerateFromPassword(req.password)
        IN  inflight' = [inflight EXCEPT ![p] =
                IF found.err = NoError
                THEN [pc |-> "done", req |-> req, user |-> NoUser,
                      err |-> ErrUserExists, resp |-> NoResponse]
                ELSE IF hashedPassword.err # NoError
                THEN [pc |-> "done", req |-> req, user |-> NoUser,
                      err |-> hashedPassword.err, resp |-> NoResponse]
                ELSE [pc |-> "checked", req |-> req,
                      user |-> [id |-> CallerID(p), email |-> req.email,
                                username |-> req.username,
                                passwordHash |-> hashedPassword.hash,
                                isActive |-> TRUE, lastLoginAt |-> ZeroTime],
                      err |-> NoError, resp |-> NoResponse]]
    /\ UNCHANGED <<now, accessTokenTTL, users, nextID, last, wallet, middleware>>

RegisterLookup(p) == RegisterLookupFrom(p, RaceRequests)

\* Service.Register from its Create call on: the insert, and the tokens when
\* the insert was accepted.
RegisterCreate(p) ==
    /\ inflight[p].pc = "checked"
    /\ LET user == inflight[p].user
           created == Create(users, user, FALSE)
       IN  /\ users' = created.db
           /\ inflight' = [inflight EXCEPT ![p] =
                IF created.err # NoError
                THEN [@ EXCEPT !.pc = "done", !.err = created.err]
                ELSE [@ EXCEPT !.pc = "done",
                        !.resp = [accessToken |->
                                      GenerateAccessToken(user.id, now, now),
                                  refreshToken |->
                                      GenerateRefreshToken(user.id, now, now),
                                  user |-> user, expiresIn |-> 3600]]]
    /\ UNCHANGED <<now, accessTokenTTL, nextID, last, wallet, middleware>>

RaceNext ==
    \/ Elapse
    \/ \E p \in Callers : RegisterLookup(p)
    \/ \E p \in Callers : RegisterCreate(p)

RaceSpec == Init /\ [][RaceNext]_vars

----------------------------------------------------------------------------
(* Properties of the Token Service *)

IsValidate == last.op \in {"ValidateAccessToken", "ValidateRefreshToken"}

\* The kind the last validation asked for.
WantedType == IF last.op = "ValidateAccessToken" THEN "access" ELSE "refresh"

\* The presented token carries a signature made with the service's secret
\* under an HMAC method.
SignedByService(tok) == tok.wf /\ tok.alg \in HMACAlgs /\ tok.key = secret

\* C1: a token produced by GenerateAccessToken(id) (GenerateRefreshToken(id))
\* and validated for its own kind by a call that ends before the token's
\* expiry yields exactly id and no error.
C1_RoundTrip ==
    (IsValidate /\ last.mintedFor # NotMinted
        /\ last.token.type = WantedType /\ last.tCheck < last.token.exp)
    => (last.err = NoError /\ last.userID = last.mintedFor)

\* An access token generated for u1 is validated at a later tick, to u1.
C1_Witness ==
    /\ last.op = "ValidateAccessToken"
    /\ last.mintedFor = "u1"
    /\ last.tParse > last.token.iat
    /\ last.err = NoError
    /\ last.userID = "u1"

\* C2: an issued, unexpired token presented to the validation of the other
\* kind fails with ErrInvalidToken and yields no user id.
C2_KindSeparation ==
    (IsValidate /\ last.mintedFor # NotMinted
        /\ last.token.type # WantedType /\ last.tCheck < last.token.exp)
    => (last.err = ErrInvalidToken /\ last.userID = "")

\* An unexpired access token generated for u1 is refused as a refresh token.
C2_Witness ==
    /\ last.op = "ValidateRefreshToken"
    /\ last.mintedFor = "u1"
    /\ last.token.type = "access"
    /\ last.tCheck < last.token.exp
    /\ last.err = ErrInvalidToken

\* C3: a token signed with the service's secret, of the kind asked for, whose
\* embedded expiry is in the past when it is presented, is rejected with
\* ErrExpiredToken.
C3_ExpiredReported ==
    (IsValidate /\ SignedByService(last.token)
        /\ last.token.type = WantedType /\ last.token.exp < last.tParse)
    => last.err = ErrExpiredToken

\* C4: a token signed with the service's secret, of the other kind than the
\* one asked for, and past its expiry is rejected with ErrInvalidToken,
\* never ErrExpiredToken.
C4_KindBeforeExpiry ==
    (IsValidate /\ SignedByService(last.token)
        /\ last.token.type # WantedType /\ last.token.exp < last.tCheck)
    => last.err = ErrInvalidToken

\* A refresh token generated for u1, presented as an access token after its
\* expiry, is refused as invalid.
C4_Witness ==
    /\ last.op = "ValidateAccessToken"
    /\ last.mintedFor = "u1"
    /\ last.token.type = "refresh"
    /\ last.token.exp < last.tParse
    /\ last.err = ErrInvalidToken

\* C5: a token signed with another secret is rejected with ErrInvalidToken
\* whatever its kind and expiry; it yields neither ErrExpiredToken nor a
\* user id.
C5_ForeignSecret ==
    (IsValidate /\ last.token.wf /\ last.token.key # secret)
    => (last.err = ErrInvalidToken /\ last.userID = "")

\* An HS256 token of the right kind, not expired, signed with another
\* secret, is refused.
C5_Witness ==
    /\ IsValidate
    /\ last.token.wf
    /\ last.token.alg = "HS256"
    /\ last.token.key = OtherSecret
    /\ last.token.type = WantedType
    /\ last.tCheck < last.token.exp
    /\ last.err = ErrInvalidToken

\* C6: a token whose header names an algorithm outside the HMAC family is
\* rejected with ErrInvalidToken whatever its payload and signature, and the
\* key function never hands the secret out for it.
C6_NonHMACRejected ==
    (IsValidate /\ last.token.wf /\ last.token.alg \notin HMACAlgs)
    => (last.err = ErrInvalidToken /\ last.userID = "" /\ ~last.keyed)

\* An unexpired "none" token of the right kind is refused.
C6_Witness ==
    /\ IsValidate
    /\ last.token.wf
    /\ last.token.alg = "none"
    /\ last.token.type = WantedType
    /\ last.tCheck < last.token.exp
    /\ last.err = ErrInvalidToken

----------------------------------------------------------------------------
(* Properties of the Credential Service *)

EmailTaken(db, email) == \E u \in db : u.email = email
UsernameTaken(db, username) == \E u \in db : u.username = username
IDs(db) == {u.id : u \in db}
RowsFor(db, email) == {u \in db : u.email = email}

\* Both tokens of a response validate, each for its own kind, to id at
\* time t.
TokensValidateTo(resp, id, t) ==
    /\ ValidateAccessToken(resp.accessToken, t, t)
         = [userID |-> id, err |-> NoError]
    /\ ValidateRefreshToken(resp.refreshToken, t, t)
         = [userID |-> id, err |-> NoError]

\* Register succeeded: a new row with a new, non-empty identifier and the
\* submitted email and username, and two tokens that validate to that
\* identifier when the call returns and at every later instant before the
\* access token's expiry.
RegisterSucceeded ==
    /\ last.err = NoError
    /\ last.resp.user.id # ""
    /\ last.resp.user.id \notin IDs(last.before)
    /\ last.resp.user.email = last.req.email
    /\ last.resp.user.username = last.req.username
    /\ last.after = last.before \cup {last.resp.user}
    /\ last.calls = 1
    /\ \A t \in Times \cup {last.tDone} :
        (last.tDone <= t /\ t < last.resp.accessToken.exp)
            => TokensValidateTo(last.resp, last.resp.user.id, t)
    /\ last.tDone < last.resp.accessToken.exp

\* C7 as stated, taken for the calls in which no store call fails and the
\* password can be hashed: every Register whose email is not yet in the
\* store succeeds.
C7_FreshEmailSucceeds ==
    (last.op = "Register"
        /\ ~EmailTaken(last.before, last.req.email)
        /\ ~last.fault.lookup /\ ~last.fault.write
        /\ last.req.password # LongPassword)
    => RegisterSucceeded

\* C7, amended: every Register whose email and username are both not yet in
\* the store, whose password bcrypt accepts and whose Create call does not
\* fail, succeeds.
C7_FreshEmailAndUsernameSucceeds ==
    (last.op = "Register"
        /\ ~EmailTaken(last.before, last.req.email)
        /\ ~UsernameTaken(last.before, last.req.username)
        /\ last.req.password # LongPassword
        /\ ~last.fault.write)
    => RegisterSucceeded

\* A second user registers next to an existing one.
C7_Witness ==
    /\ last.op = "Register"
    /\ last.before # {}
    /\ last.err = NoError
    /\ Cardinality(last.after) = 2

\* What C8 says of every Register for an email that a row already has.
DuplicateRefused ==
    /\ last.err = ErrUserExists
    /\ last.calls = 0

DuplicateLeavesNoTrace ==
    /\ last.err # NoError
    /\ last.resp = NoResponse
    /\ last.after = last.before
    /\ Cardinality(RowsFor(last.after, last.req.email)) = 1

Registered == EmailTaken(last.before, last.req.email)
TheRow == CHOOSE u \in last.before : u.email = last.req.email
RightPassword ==
    Registered /\ TheRow.passwordHash = <<"bcrypt", last.req.password>>

\* Login succeeded: both tokens are for the identifier of the row with the
\* request's email.
LoginSucceeded ==
    /\ last.err = NoError
    /\ last.resp.user.id = TheRow.id
    /\ last.resp.user.email = last.req.email
    /\ TokensValidateTo(last.resp, TheRow.id, last.tDone)

LoginRefused ==
    /\ last.err = ErrInvalidCredentials
    /\ last.resp = NoResponse

C10_UpdateFailureIgnored ==
    (last.op = "Login" /\ RightPassword /\ ~last.fault.lookup
        /\ last.fault.write)
    => (LoginSucceeded /\ last.calls = 1 /\ last.after = last.before
        /\ last.resp.user = [TheRow EXCEPT !.lastLoginAt = last.tDone])

\* A Login whose Update failed returned tokens.
C10_Witness ==
    /\ last.op = "Login"
    /\ last.fault.write
    /\ last.calls = 1
    /\ last.err = NoError
    /\ last.resp.accessToken.wf

----------------------------------------------------------------------------
(* Properties of the session *)

\* A token the Token Service accepts as of kind at time t: signed by the
\* service, of that kind, not yet at its expiry.
ValidAt(tok, kind, t) ==
    SignedByService(tok) /\ tok.type = kind /\ t < tok.exp

HasRecord(db, id) == \E u \in db : u.id = id

\* C11: RefreshToken given a valid, unexpired refresh token whose user id has
\* no row in the store fails with ErrUserNotFound, returns no response and
\* generates no access token.
C11_DeletedUserRefused ==
    (last.op = "RefreshToken"
        /\ ValidAt(last.token, "refresh", last.tDone)
        /\ ~HasRecord(last.before, last.token.user_id))
    => (last.err = ErrUserNotFound
        /\ last.resp = NoResponse
        /\ last.generated = <<>>)

\* The client's refresh token, not expired, is refused after the client's
\* account was deleted, while another account is still there.
C11_Witness ==
    /\ last.op = "RefreshToken"
    /\ last.token = last.held.refresh
    /\ ValidAt(last.token, "refresh", last.tDone)
    /\ last.before # {}
    /\ ~HasRecord(last.before, last.held.owner)
    /\ last.err = ErrUserNotFound

IsTokenCall == last.op \in {"RefreshToken", "ValidateToken"}

\* The error of the Token Service's validation is the error of the call.
VerdictPropagated ==
    last.verdict.err \in {ErrInvalidToken, ErrExpiredToken}
        => (last.err = last.verdict.err /\ last.user = NoUser)

\* The propagation alone, whatever error the Token Service chose.
TokenErrorsPropagated == IsTokenCall => VerdictPropagated

\* C12: RefreshToken and ValidateToken fail with the very error the Token
\* Service's validation failed with, so that a refresh token signed by the
\* service and past its expiry, given to RefreshToken, yields
\* ErrExpiredToken.
C12_ErrorsVerbatim ==
    IsTokenCall =>
        /\ VerdictPropagated
        /\ (last.op = "RefreshToken"
                /\ SignedByService(last.token)
                /\ last.token.type = "refresh"
                /\ last.token.exp < last.tDone)
            => last.err = ErrExpiredToken

\* The kind of token the last call asks the Token Service for.
KindAsked == IF last.op = "RefreshToken" THEN "refresh" ELSE "access"

\* C13: when the token's validation fails, RefreshToken and ValidateToken
\* make no store call, generate no token, return nothing but the error, and
\* the store is as it was.
C13_TokenCheckFirst ==
    (IsTokenCall /\ last.verdict.err # NoError)
    => (/\ last.calls = 0
        /\ last.generated = <<>>
        /\ last.resp = NoResponse
        /\ last.user = NoUser
        /\ users = last.before)

\* The client's refresh token, signed by the service and of the right kind,
\* is presented after its expiry while the client's row is in the store; no
\* lookup is made.
C13_Witness ==
    /\ last.op = "RefreshToken"
    /\ last.token = last.held.refresh
    /\ SignedByService(last.token)
    /\ last.token.exp < last.tDone
    /\ HasRecord(last.before, last.token.user_id)
    /\ last.verdict.err # NoError
    /\ last.calls = 0

\* C14: a successful RefreshToken returns no refresh token; its access token
\* is generated by the call, and ValidateAccessToken resolves it to the user
\* id of the refresh token presented; the only token generated is the access
\* token.
C14_AccessOnly ==
    (last.op = "RefreshToken" /\ last.err = NoError)
    => (/\ last.resp.refreshToken = Malformed
        /\ last.generated = <<"access">>
        /\ last.resp.accessToken.iat = NumericDate(last.tDone)
        /\ ValidateAccessToken(last.resp.accessToken, last.tDone, last.tDone)
             = [userID |-> last.token.user_id, err |-> NoError]
        /\ last.resp.user.id = last.token.user_id)

\* The client renews its access token after the first one has expired.
C14_Witness ==
    /\ last.op = "RefreshToken"
    /\ last.err = NoError
    /\ last.token = last.held.refresh
    /\ last.held.access.exp < last.tDone
    /\ last.resp.accessToken.user_id = last.held.owner

\* The last call presents the client's refresh token, which RefreshToken has
\* accepted before, ahead of its expiry and while its user's row is in the
\* store.
ReusedInTime ==
    /\ last.op = "RefreshToken"
    /\ last.token = last.held.refresh
    /\ last.held.accepted > 0
    /\ last.tDone < last.token.exp
    /\ HasRecord(last.before, last.token.user_id)

CurrentRecord(db, id) ==
    IF HasRecord(db, id)
    THEN [err |-> NoError, user |-> CHOOSE u \in db : u.id = id]
    ELSE [err |-> ErrUserNotFound, user |-> NoUser]

\* C16 as stated: ValidateToken with a valid access token returns the row
\* now stored under the token's user id, and fails with ErrUserNotFound when
\* there is no such row any more.
C16_CurrentRecordAlways ==
    (last.op = "ValidateToken" /\ ValidAt(last.token, "access", last.tDone))
    => [err |-> last.err, user |-> last.user]
         = CurrentRecord(users, last.token.user_id)

\* C16, amended: it does so whenever its lookup of the user does not fail,
\* and returns the store's error when it does.
C16_CurrentRecordWhenLookupAnswers ==
    (last.op = "ValidateToken" /\ ValidAt(last.token, "access", last.tDone))
    => [err |-> last.err, user |-> last.user]
         = IF last.fault THEN [err |-> ErrStoreFault, user |-> NoUser]
           ELSE CurrentRecord(users, last.token.user_id)

\* The client's access token resolves to a row whose last login is later
\* than the token, next to another user's row.
C16_Witness ==
    /\ last.op = "ValidateToken"
    /\ last.token = last.held.access
    /\ last.err = NoError
    /\ last.user.id = last.held.owner
    /\ last.user.lastLoginAt > last.token.iat
    /\ Cardinality(users) = 2

\* The client's access token, still valid, finds no row after the account
\* was deleted.
C16_WitnessDeleted ==
    /\ last.op = "ValidateToken"
    /\ last.token = last.held.access
    /\ ValidAt(last.token, "access", last.tDone)
    /\ ~HasRecord(users, last.held.owner)
    /\ last.err = ErrUserNotFound

\* The verdict on a token as a function of the token, the secret and the
\* time alone.
StatelessVerdict(tok, kind, t) ==
    IF ValidAt(tok, kind, t)
    THEN [userID |-> tok.user_id, err |-> NoError]
    ELSE [userID |-> "", err |-> ErrInvalidToken]

\* C17: what ValidateAccessToken and ValidateRefreshToken answer for a token
\* depends on the token, the secret and the time only; no Register, Login,
\* RefreshToken, Logout, ChangePassword or Delete made before changes it.
C17_Stateless ==
    IsTokenCall
    => last.verdict = StatelessVerdict(last.token, KindAsked, last.tDone)

\* The client's token is found valid after the client logged out, used the
\* refresh token, logged in again and had its account deleted.
C17_Witness ==
    /\ IsTokenCall
    /\ last.token \in {last.held.access, last.held.refresh}
    /\ last.held.loggedOut
    /\ last.held.accepted > 0
    /\ last.held.logins > 0
    /\ ~HasRecord(users, last.held.owner)
    /\ last.verdict = [userID |-> last.held.owner, err |-> NoError]

----------------------------------------------------------------------------
(* The life of a token *)

\* The time-to-live of a token of this kind.
KindTTL(kind) == IF kind = "access" THEN accessTokenTTL ELSE refreshTokenTTL

\* The last call validated, for its own kind, a token that a Generate call
\* issued.
OwnKindOfIssued ==
    IsValidate /\ last.mintedFor # NotMinted /\ last.token.type = WantedType

\* C18 as stated, its first half: a token issued at time t with
\* time-to-live d is accepted for its own kind by every validation made
\* within [t, t+d), and refused by every validation made after t+d.
C18_ValidUntilTTL ==
    OwnKindOfIssued =>
        /\ last.tCheck < last.issued + KindTTL(last.token.type)
                => last.err = NoError
        /\ last.tParse > last.issued + KindTTL(last.token.type)
                => last.err # NoError

\* Accepted by every validation that ends before the expiry the token
\* carries, refused by every validation that begins at that expiry or later.
ValidUntilExpiry ==
    OwnKindOfIssued =>
        /\ last.token.exp
             = NumericDate(last.issued + KindTTL(last.token.type))
        /\ last.tCheck < last.token.exp => last.err = NoError
        /\ last.tParse >= last.token.exp => last.err # NoError

\* A token refused for its own kind is refused by the next validation of it
\* for that kind.
NoWayBack ==
    (OwnKindOfIssued /\ last.err # NoError
        /\ last'.op = last.op /\ last'.token = last.token)
    => last'.err # NoError

\* C18, amended: the token carries as its expiry e the time t+d cut down to
\* the whole second (t+d-1s < e <= t+d); validation for its own kind
\* succeeds at every time in [t, e) and fails at every time from e on; once
\* refused it is never accepted again.
C18_ValidUntilExpiry == []ValidUntilExpiry /\ [][NoWayBack]_vars

\* A token issued within a second is refused at the whole second before
\* t+d, and was accepted before that.
C18_Witness ==
    /\ OwnKindOfIssued
    /\ last.issued % Second # 0
    /\ last.tParse = last.token.exp
    /\ last.tCheck < last.issued + KindTTL(last.token.type)
    /\ last.err # NoError

IsGenerate == last.op \in {"GenerateAccessToken", "GenerateRefreshToken"}

\* C19: every token GenerateAccessToken or GenerateRefreshToken issues
\* carries an expiry strictly later than its issued-at, the two apart by the
\* time-to-live of its kind: accessTokenTTL as given to NewJWTService for an
\* access token, seven days for a refresh token.
C19_ExpiryAfterIssue ==
    IsGenerate =>
        /\ last.token.exp > last.token.iat
        /\ last.token.exp - last.token.iat = KindTTL(last.token.type)

----------------------------------------------------------------------------
(* Properties of concurrent registration *)

Returned(p) == inflight[p].pc = "done"
Succeeded(p) ==
    /\ Returned(p)
    /\ inflight[p].err = NoError
    /\ inflight[p].resp.accessToken.wf

\* C20: whatever the interleaving of concurrent Register calls for one
\* email, on a store whose Create refuses a second row for an email, at most
\* one call returns success with tokens, and once all have returned the
\* store holds exactly one row for the email.
C20_OneWinner ==
    /\ Cardinality({p \in Callers : Succeeded(p)}) <= 1
    /\ Cardinality(RowsFor(users, Client)) <= 1
    /\ (\A p \in Callers : Returned(p))
        => (/\ Cardinality(RowsFor(users, Client)) = 1
            /\ \E p \in Callers :
                /\ Succeeded(p)
                /\ RowsFor(users, Client) = {inflight[p].resp.user})

\* Two calls both passed the lookup before either wrote: one created the
\* row, the other was refused by the store.
C20_Witness ==
    /\ \A p \in Callers : Returned(p)
    /\ \E p, q \in Callers :
        /\ Succeeded(p)
        /\ inflight[q].err = ErrDuplicatedKey
        /\ inflight[q].req.username # inflight[p].req.username

\* The call of p reached Create and Create refused the row.
CreateRefused(p) ==
    /\ Returned(p)
    /\ inflight[p].user # NoUser
    /\ inflight[p].resp = NoResponse

\* C21: a Register call whose Create is refused for a duplicate key, the
\* loser of a race for one email, returns ErrUserExists as the sequential
\* duplicate does.
C21_RaceLoserUserExists ==
    \A p \in Callers : CreateRefused(p) => inflight[p].err = ErrUserExists

----------------------------------------------------------------------------
(* Store faults *)

\* C22: when the email lookup of Register or Login fails with a store error
\* that is not "not found", the call returns that same error, makes no
\* further store call and returns no response.
C22_FaultsPassedThrough ==
    (last.op \in {"Register", "Login"} /\ last.fault.lookup)
    => (/\ last.err = ErrStoreFault
        /\ last.calls = 0
        /\ last.resp = NoResponse)

\* C23: the ExpiresIn of every response of Register and Login is, in
\* seconds, the lifetime (expiry less issued-at) of the access token in that
\* response, whatever accessTokenTTL the Token Service was built with.
C23_ExpiresInIsLifetime ==
    (last.op \in {"Register", "Login"} /\ last.err = NoError)
    => last.resp.expiresIn * Second
         = last.resp.accessToken.exp - last.resp.accessToken.iat

(* Transport: GRPCServer, and the gateway in front of it *)

\* google.golang.org/grpc/codes, as far as the servers and clients here
\* produce them.
OK == "OK"
AlreadyExists == "AlreadyExists"
Unauthenticated == "Unauthenticated"
Internal == "Internal"
Unavailable == "Unavailable"

\* A nil *timestamppb.Timestamp, a nil *authpb.User and a nil response.
NoTimestamp == <<>>
NoProtoUser == [id |-> ""]
NoProto == [accessToken |-> Malformed, refreshToken |-> Malformed,
            user |-> NoProtoUser, expiresIn |-> 0]

\* timestamppb.New(t) for a time that is not the zero time.
TimestampNew(t) == IF t = ZeroTime THEN NoTimestamp ELSE <<t>>

\* Mutant: the password hash is copied into the outward user.
userToProtoWithHash(user) ==
    [id |-> user.id, email |-> user.email, username |-> user.username,
     isActive |-> user.isActive,
     lastLoginAt |-> TimestampNew(user.lastLoginAt),
     passwordHash |-> user.passwordHash]

\* GRPCServer.userToProto: the fields of authpb.User, which has none for
\* the password hash.
userToProto(user) ==
    [id |-> user.id, email |-> user.email, username |-> user.username,
     isActive |-> user.isActive,
     lastLoginAt |-> TimestampNew(user.lastLoginAt)]

\* encoding/json of User: PasswordHash is tagged json:"-", last_login_at is
\* written as it is.
MarshalUser(user) ==
    [id |-> user.id, email |-> user.email, username |-> user.username,
     is_active |-> user.isActive, last_login_at |-> user.lastLoginAt]

\* GRPCServer.Register around the service result r.
GRPCServerRegister(r) ==
    IF r.err # NoError
    THEN [code |-> IF r.err = ErrUserExists THEN AlreadyExists ELSE Internal,
          resp |-> NoProto]
    ELSE [code |-> OK,
          resp |-> [accessToken |-> r.resp.accessToken,
                    refreshToken |-> r.resp.refreshToken,
                    user |-> userToProto(r.resp.user),
                    expiresIn |-> r.resp.expiresIn]]

\* GRPCServer.Login around the service result r.
GRPCServerLogin(r) ==
    IF r.err # NoError
    THEN [code |-> IF r.err = ErrInvalidCredentials THEN Unauthenticated
                   ELSE Internal,
          resp |-> NoProto]
    ELSE [code |-> OK,
          resp |-> [accessToken |-> r.resp.accessToken,
                    refreshToken |-> r.resp.refreshToken,
                    user |-> userToProto(r.resp.user),
                    expiresIn |-> r.resp.expiresIn]]

\* GRPCServer.RefreshToken around the service result r: one status for
\* every error, and no refresh token in the answer.
GRPCServerRefreshToken(r) ==
    IF r.err # NoError
    THEN [code |-> Unauthenticated, resp |-> NoProto]
    ELSE [code |-> OK,
          resp |-> [accessToken |-> r.resp.accessToken,
                    refreshToken |-> Malformed,
                    user |-> userToProto(r.resp.user),
                    expiresIn |-> r.resp.expiresIn]]

\* GRPCServer.ValidateToken around the service result r: never a status
\* error, the service's error travels as text in the answer.
GRPCServerValidateToken(r) ==
    IF r.err # NoError
    THEN [code |-> OK, valid |-> FALSE, error |-> r.err, user |-> NoProtoUser]
    ELSE [code |-> OK, valid |-> TRUE, error |-> "",
          user |-> userToProto(r.user)]

\* What the gateway's client is given when the auth service cannot be
\* reached, and the place of an answer when no RPC was made.
Unreachable == [code |-> Unavailable, resp |-> NoProto]
NoRPC == [code |-> "", resp |-> NoProto]

\* net/http status codes written by the gateway.
StatusOK == 200
StatusCreated == 201
StatusBadRequest == 400
StatusUnauthorized == 401
StatusConflict == 409
StatusInternalServerError == 500

\* A request body that ShouldBindJSON refuses.
BadJSON == [email |-> ""]

\* Gateway.Register, Gateway.Login and Gateway.RefreshToken after the body
\* was bound: the status and body written for the client's answer rpc.
GatewayRegister(rpc) ==
    IF rpc.code # OK
    THEN [status |-> StatusInternalServerError, body |-> NoProto]
    ELSE [status |-> StatusCreated, body |-> rpc.resp]

GatewayLogin(rpc) ==
    IF rpc.code # OK
    THEN [status |-> StatusUnauthorized, body |-> NoProto]
    ELSE [status |-> StatusOK, body |-> rpc.resp]

GatewayRefreshToken(rpc) ==
    IF rpc.code # OK
    THEN [status |-> StatusUnauthorized, body |-> NoProto]
    ELSE [status |-> StatusOK, body |-> rpc.resp]

\* ShouldBindJSON failed: 400 and the auth service is not called.
GatewayBadRequest == [status |-> StatusBadRequest, body |-> NoProto]

\* An Authorization header is written as its fields between single spaces;
\* the empty header has none.  strings.SplitN(header, " ", 2).
SplitN(header) ==
    IF Len(header) < 2 THEN <<header>> ELSE <<<<header[1]>>, Tail(header)>>

\* The string after the first space, as a token: text with a space in it,
\* or with nothing in it, is no JWT.
TokenOf(fields) == IF Len(fields) = 1 THEN fields[1] ELSE Malformed

\* The gin context after JWTAuth refused the request.
Refused(message) ==
    [status |-> StatusUnauthorized, error |-> message, aborted |-> TRUE,
     keys |-> {}, handler |-> FALSE, rpcs |-> 0]

\* Mutant: the scheme of the header is not looked at.
JWTAuthAnyScheme(db, header, fault, down, t1, t2) ==
    IF header = <<>> THEN Refused("Authorization header required")
    ELSE LET parts == SplitN(header) IN
    IF Len(parts) # 2
    THEN Refused("Invalid authorization header format")
    ELSE LET token == TokenOf(parts[2])
             resp == GRPCServerValidateToken(
                         ValidateToken(db, token, fault, t1, t2))
         IN
    IF down THEN [Refused("Invalid token") EXCEPT !.rpcs = 1]
    ELSE IF ~resp.valid THEN [Refused(resp.error) EXCEPT !.rpcs = 1]
    ELSE [status |-> StatusOK, error |-> "", aborted |-> FALSE,
          keys |-> {<<"user_id", resp.user.id>>, <<"user", resp.user>>},
          handler |-> TRUE, rpcs |-> 1]

\* JWTAuth in front of a protected handler, for a request with this
\* Authorization header.  down: the auth service cannot be reached.
\* keys: what the chain set in the request context; handler: c.Next() ran
\* the route's handler; rpcs: the ValidateToken calls made.
JWTAuth(db, header, fault, down, t1, t2) ==
    IF header = <<>> THEN Refused("Authorization header required")
    ELSE LET parts == SplitN(header) IN
    IF Len(parts) # 2 \/ parts[1] # <<"Bearer">>
    THEN Refused("Invalid authorization header format")
    ELSE LET token == TokenOf(parts[2])
             resp == GRPCServerValidateToken(
                         ValidateToken(db, token, fault, t1, t2))
         IN
    IF down THEN [Refused("Invalid token") EXCEPT !.rpcs = 1]
    ELSE IF ~resp.valid THEN [Refused(resp.error) EXCEPT !.rpcs = 1]
    ELSE [status |-> StatusOK, error |-> "", aborted |-> FALSE,
          keys |-> {<<"user_id", resp.user.id>>, <<"user", resp.user>>},
          handler |-> TRUE, rpcs |-> 1]

\* Requests to the gateway: the two accounts, a wrong password for the
\* client, and a body that does not bind.
GatewayLoginRequests ==
    SessionLoginRequests \cup {[email |-> Client, password |-> "password-2"]}

\* Headers a client sends: none, a scheme with nothing after it, and a
\* presentable token after the right or another scheme, or followed by
\* further text.
Headers ==
    {<<>>, <<"Bearer">>}
      \cup {<<"Bearer", tok>> : tok \in SessionTokens}
      \cup {<<"Basic", wallet.access>>, <<"bearer", wallet.access>>,
            <<"Bearer", wallet.access, "x">>}

\* POST /api/v1/auth/register for a request that the router's global
\* middleware let through: Gateway.Register, the RPC, GRPCServer.Register and
\* Service.Register.
PostRegister ==
    \E body \in SessionRegisterRequests \cup {BadJSON},
       fault \in Faults, down \in BOOLEAN :
        /\ nextID <= Len(UUIDs)
        /\ (body = BadJSON \/ down) => fault = NoFault
        /\ body = BadJSON => ~down
        /\ LET called == body # BadJSON /\ ~down
               r == IF called
                    THEN Register(users, body, fault, UUIDs[nextID], now, now)
                    ELSE [err |-> NoError, resp |-> NoResponse, db |-> users,
                          creates |-> 0]
               rpc == IF ~called THEN (IF down THEN Unreachable ELSE NoRPC)
                      ELSE GRPCServerRegister(r)
               http == IF body = BadJSON THEN GatewayBadRequest
                       ELSE GatewayRegister(rpc)
           IN
            /\ users' = r.db
            /\ nextID' = IF called /\ r.err = NoError THEN nextID + 1
                         ELSE nextID
            /\ last' = [op |-> "POST /auth/register", req |-> body,
                        fault |-> fault, down |-> down, called |-> called,
                        before |-> users, err |-> r.err, resp |-> r.resp,
                        rpc |-> rpc, http |-> http]
            /\ wallet' = IF called THEN Keep(wallet, r) ELSE wallet
        /\ UNCHANGED <<now, accessTokenTTL, inflight, middleware>>

\* POST /api/v1/auth/login.
PostLogin ==
    \E body \in GatewayLoginRequests \cup {BadJSON},
       fault \in Faults, down \in BOOLEAN :
        /\ (body = BadJSON \/ down) => fault = NoFault
        /\ body = BadJSON => ~down
        /\ LET called == body # BadJSON /\ ~down
               r == IF called THEN Login(users, body, fault, now, now)
                    ELSE [err |-> NoError, resp |-> NoResponse, db |-> users,
                          updates |-> 0]
               rpc == IF ~called THEN (IF down THEN Unreachable ELSE NoRPC)
                      ELSE GRPCServerLogin(r)
               http == IF body = BadJSON THEN GatewayBadRequest
                       ELSE GatewayLogin(rpc)
           IN
            /\ users' = r.db
            /\ last' = [op |-> "POST /auth/login", req |-> body,
                        fault |-> fault, down |-> down, called |-> called,
                        before |-> users, err |-> r.err, resp |-> r.resp,
                        rpc |-> rpc, http |-> http]
            /\ wallet' = IF called THEN Keep(wallet, r) ELSE wallet
        /\ UNCHANGED <<now, accessTokenTTL, nextID, inflight, middleware>>

\* POST /api/v1/auth/refresh.  A body is the refresh token it carries.
PostRefresh ==
    \E body \in SessionTokens \cup {BadJSON},
       fault \in BOOLEAN, down \in BOOLEAN :
        /\ (body = BadJSON \/ down) => ~fault
        /\ body = BadJSON => ~down
        /\ LET called == body # BadJSON /\ ~down
               r == IF called
                    THEN RefreshToken(users, body, fault, now, now, now)
                    ELSE [err |-> NoError, resp |-> NoResponse, lookups |-> 0]
               rpc == IF ~called THEN (IF down THEN Unreachable ELSE NoRPC)
                      ELSE GRPCServerRefreshToken(r)
               http == IF body = BadJSON THEN GatewayBadRequest
                       ELSE GatewayRefreshToken(rpc)
           IN
            /\ fault => r.lookups > 0
            /\ last' = [op |-> "POST /auth/refresh", req |-> body,
                        fault |-> fault, down |-> down, called |-> called,
                        before |-> users, err |-> r.err, resp |-> r.resp,
                        rpc |-> rpc, http |-> http]
        /\ UNCHANGED <<now, accessTokenTTL, users, nextID, wallet, inflight, middleware>>

\* Any route of the protected group: JWTAuth, then the route's handler.
\* answer: what the ValidateToken RPC gave the middleware when it was made.
Protected ==
    \E header \in Headers, fault \in BOOLEAN, down \in BOOLEAN :
        /\ LET c == JWTAuth(users, header, fault, down, now, now)
               token == IF Len(header) > 1 THEN TokenOf(Tail(header))
                        ELSE Malformed
               r == ValidateToken(users, token, fault, now, now)
           IN
            /\ (fault \/ down) => c.rpcs > 0
            /\ down => ~fault
            /\ fault => r.lookups > 0
            /\ last' = [op |-> "protected", header |-> header,
                        fault |-> fault, down |-> down, before |-> users,
                        called |-> c.rpcs > 0 /\ ~down, tDone |-> now,
                        err |-> r.err, user |-> r.user,
                        rpc |-> IF down THEN Unreachable
                                ELSE IF c.rpcs = 0 THEN NoRPC
                                ELSE GRPCServerValidateToken(r),
                        http |-> c]
        /\ UNCHANGED <<now, accessTokenTTL, users, nextID, wallet, inflight, middleware>>

GatewayNext ==
    \/ Elapse
    \/ PostRegister
    \/ PostLogin
    \/ PostRefresh
    \/ Protected
    \/ CallDelete

GatewaySpec == Init /\ [][GatewayNext]_vars

(* Transport claims *)

\* An RPC that answers a service error with a status error reached the
\* service.
IsStatusRPC ==
    /\ last.op \in {"POST /auth/register", "POST /auth/login",
                    "POST /auth/refresh"}
    /\ last.called

\* The status each error kind is to travel as.
StatusFor(err) ==
    CASE err = ErrUserExists -> AlreadyExists
      [] err \in {ErrInvalidCredentials, ErrInvalidToken, ErrExpiredToken}
           -> Unauthenticated
      [] err = ErrUserNotFound -> "NotFound"
      [] OTHER -> Internal

\* C24: in every RPC the error the service returned travels as the status
\* of its kind: ErrUserExists as AlreadyExists, ErrInvalidCredentials,
\* ErrInvalidToken and ErrExpiredToken as Unauthenticated, ErrUserNotFound
\* as NotFound (RefreshToken's too), any other error as Internal.
C24_ErrorKindsMapped ==
    (IsStatusRPC /\ last.err # NoError) => last.rpc.code = StatusFor(last.err)

\* C25: a registration through the gateway for an email that is already
\* registered is answered 409, a successful one 201, and a duplicate one
\* never with a 5xx status.
C25_DuplicateIs409 ==
    (last.op = "POST /auth/register" /\ last.called)
    => (/\ EmailTaken(last.before, last.req.email)
            => (last.http.status = StatusConflict
                /\ last.http.status < StatusInternalServerError)
        /\ last.err = NoError => last.http.status = StatusCreated)

\* The outward forms of a service response and of a user when the stored
\* password hash is h.
WithHash(resp, h) == [resp EXCEPT !.user.passwordHash = h]
Hashes == {GenerateFromPassword(p).hash : p \in {"password-1", "password-2"}}

\* A call whose answer carries a user.
AnswersWithUser ==
    /\ last.op \in {"POST /auth/register", "POST /auth/login",
                    "POST /auth/refresh", "protected"}
    /\ last.called
    /\ last.err = NoError

\* What leaves the process for the last call: the protobuf message of the
\* RPC and what the gateway wrote to the client.
Emitted == <<last.rpc, last.http>>
EmittedWithHash(h) ==
    CASE last.op = "POST /auth/register" ->
           LET rpc == GRPCServerRegister(
                          [err |-> NoError, resp |-> WithHash(last.resp, h)])
           IN <<rpc, GatewayRegister(rpc)>>
      [] last.op = "POST /auth/login" ->
           LET rpc == GRPCServerLogin(
                          [err |-> NoError, resp |-> WithHash(last.resp, h)])
           IN <<rpc, GatewayLogin(rpc)>>
      [] last.op = "POST /auth/refresh" ->
           LET rpc == GRPCServerRefreshToken(
                          [err |-> NoError, resp |-> WithHash(last.resp, h)])
           IN <<rpc, GatewayRefreshToken(rpc)>>
      [] last.op = "protected" ->
           LET rpc == GRPCServerValidateToken(
                          [err |-> NoError,
                           user |-> [last.user EXCEPT !.passwordHash = h]])
           IN <<rpc,
                [last.http EXCEPT
                    !.keys = {<<"user_id", rpc.user.id>>,
                              <<"user", rpc.user>>}]>>

\* C26: what the transport emits for Register, Login, RefreshToken and
\* ValidateToken is the same whatever the password hash of the user in the
\* answer is, and so is the JSON encoding of the user.
C26_HashNeverEmitted ==
    AnswersWithUser =>
        \A h \in Hashes :
            /\ EmittedWithHash(h) = Emitted
            /\ LET user == IF last.op = "protected" THEN last.user
                           ELSE last.resp.user
               IN MarshalUser([user EXCEPT !.passwordHash = h])
                    = MarshalUser(user)

\* C26 witness: an answer went out for a user whose stored hash is one of
\* two that were tried.
C26_Witness ==
    /\ AnswersWithUser
    /\ last.op = "POST /auth/login"
    /\ last.resp.user.passwordHash \in Hashes
    /\ \E h \in Hashes : h # last.resp.user.passwordHash
    /\ last.http.body.user.email = Client

\* The header is the word Bearer, one space and one token.
BearerToken(header) == Len(header) = 2 /\ header[1] = "Bearer"

\* The request was turned away with 401 before any handler.
TurnedAway ==
    /\ last.http.status = StatusUnauthorized
    /\ last.http.aborted
    /\ ~last.http.handler
    /\ \A k \in last.http.keys : k[1] # "user_id"

\* C27: behind JWTAuth a handler runs only for a header "Bearer <token>"
\* whose token ValidateToken answered with Valid = true; a missing header,
\* another format, a failed RPC and Valid = false each give 401, abort the
\* chain and leave user_id unset.
C27_ProtectedGated ==
    last.op = "protected" =>
        /\ last.http.handler =>
             /\ BearerToken(last.header)
             /\ last.called
             /\ last.rpc.code = OK
             /\ last.rpc.valid
             /\ ValidateToken(last.before, last.header[2], FALSE,
                              last.tDone, last.tDone).err = NoError
        /\ ~BearerToken(last.header) => TurnedAway
        /\ (Len(last.header) < 2 \/ last.header[1] # "Bearer")
             => last.http.rpcs = 0
        /\ last.down => TurnedAway
        /\ (last.called /\ ~last.rpc.valid) => TurnedAway
        /\ (TurnedAway \/ last.http.handler)

\* C27 witness: a request with the client's access token reached the
\* handler with user_id set to the client's id, while the same token after
\* another scheme would be a header to refuse.
C27_Witness ==
    /\ last.op = "protected"
    /\ last.http.handler
    /\ last.header = <<"Bearer", wallet.access>>
    /\ <<"user_id", wallet.owner>> \in last.http.keys
    /\ <<"Basic", wallet.access>> \in Headers

\* C27 witness: a request was turned away because the RPC failed although
\* its token was a valid one.
C27_WitnessRefused ==
    /\ last.op = "protected"
    /\ last.down
    /\ last.header = <<"Bearer", wallet.access>>
    /\ ValidateToken(users, wallet.access, FALSE, now, now).err = NoError
    /\ TurnedAway

(* Failed logins *)

\* What the caller of a Login is given.
Outcome(r) == <<r.err, r.resp>>

\* C28: a Login that returns ErrInvalidCredentials returns no response,
\* makes no writing store call, leaves the store as it was and hands out no
\* token, and what the caller is given for an unknown email is what it is
\* given for a wrong password.
C28_FailedLoginNoEffect ==
    (last.op = "Login" /\ last.err = ErrInvalidCredentials)
    => (/\ last.resp = NoResponse
        /\ last.calls = 0
        /\ last.after = last.before
        /\ \A req \in LoginRequests :
             LET r == Login(last.before, req, last.fault,
                            last.tDone, last.tDone)
             IN  r.err # NoError => Outcome(r) = Outcome(last))

\* C28 witness: a wrong password for a registered email was refused while
\* another email was not registered.
C28_Witness ==
    /\ last.op = "Login"
    /\ last.err = ErrInvalidCredentials
    /\ ~last.fault.lookup
    /\ Registered /\ ~RightPassword
    /\ TheRow.lastLoginAt = ZeroTime
    /\ \E e \in Emails : ~EmailTaken(last.before, e)

(* The store under interleaved calls *)

\* The account that is there when the calls start: the client's, as
\* Register leaves it.
FirstRow ==
    [id |-> UUIDs[1], email |-> Client, username |-> "ann",
     passwordHash |-> GenerateFromPassword("password-1").hash,
     isActive |-> TRUE, lastLoginAt |-> ZeroTime]

StoreInit ==
    /\ now = 0
    /\ accessTokenTTL = Hour
    /\ users = {FirstRow}
    /\ nextID = 2
    /\ last = [op |-> "none"]
    /\ wallet = NoWallet
    /\ inflight = NoCalls
    /\ MiddlewareIdle

\* Registrations under either email and username, logins of the client with
\* the right and with a wrong password.
StoreRegisterRequests == {r \in RegisterRequests : r.password = "password-2"}
StoreLoginRequests ==
    {r \in LoginRequests : r.email = Client /\ r.password # LongPassword}

\* Service.Login up to its Update call: the lookup of the email, the
\* comparison of the password and the stamping of the row that was read.
LoginLookup(p) ==
    /\ inflight[p].pc = "idle"
    /\ \E req \in StoreLoginRequests :
        LET found == GetByEmail(users, req.email, FALSE) IN
        inflight' = [inflight EXCEPT ![p] =
            IF found.err # NoError
               \/ ~CompareHashAndPassword(found.user.passwordHash,
                                          req.password)
            THEN [pc |-> "done", req |-> req, user |-> NoUser,
                  err |-> ErrInvalidCredentials, resp |-> NoResponse]
            ELSE [pc |-> "found", req |-> req,
                  user |-> [found.user EXCEPT !.lastLoginAt = now],
                  err |-> NoError, resp |-> NoResponse]]
    /\ UNCHANGED <<now, accessTokenTTL, users, nextID, last, wallet, middleware>>

\* Service.Login from its Update call on: the row is saved, whatever the
\* store says, and the tokens are generated.
LoginUpdate(p) ==
    /\ inflight[p].pc = "found"
    /\ LET user == inflight[p].user IN
        /\ users' = Update(users, user, FALSE).db
        /\ inflight' = [inflight EXCEPT ![p] =
             [@ EXCEPT !.pc = "done",
                !.resp = [accessToken |->
                              GenerateAccessToken(user.id, now, now),
                          refreshToken |->
                              GenerateRefreshToken(user.id, now, now),
                          user |-> user, expiresIn |-> 3600]]]
    /\ UNCHANGED <<now, accessTokenTTL, nextID, last, wallet, middleware>>

\* Service.RefreshToken and Service.ValidateToken with the tokens of a call
\* that has returned: a lookup and nothing written.
TokenCall(p) ==
    /\ inflight[p].pc = "done"
    /\ inflight[p].resp # NoResponse
    /\ \E op \in {"RefreshToken", "ValidateToken"} :
        LET resp == inflight[p].resp
            r == IF op = "RefreshToken"
                 THEN RefreshToken(users, resp.refreshToken, FALSE,
                                   now, now, now)
                 ELSE ValidateToken(users, resp.accessToken, FALSE, now, now)
        IN  last' = [op |-> op, caller |-> p, err |-> r.err,
                     lookups |-> r.lookups]
    /\ UNCHANGED <<now, accessTokenTTL, users, nextID, wallet, inflight, middleware>>

StoreNext ==
    \/ Elapse
    \/ \E p \in Callers : RegisterLookupFrom(p, StoreRegisterRequests)
    \/ \E p \in Callers : RegisterCreate(p)
    \/ \E p \in Callers : LoginLookup(p)
    \/ \E p \in Callers : LoginUpdate(p)
    \/ \E p \in Callers : TokenCall(p)

StoreSpec == StoreInit /\ [][StoreNext]_vars

\* No two stored records share an email or a username.
Unique(db) ==
    \A u, v \in db : u # v => (u.email # v.email /\ u.username # v.username)

\* A step leaves every stored record its identifier.
IdentifierKept ==
    \A u \in users : \A v \in users' : v.email = u.email => v.id = u.id

\* C29: whatever Register, Login, RefreshToken and ValidateToken calls were
\* made and however their store calls interleaved, no two stored records
\* share an email, no two share a username, and no step changes the
\* identifier of a stored record.
C29_StoreUnique == []Unique(users) /\ [][IdentifierKept]_vars

\* C29 witness: a Login is between its lookup and its Update while the
\* Register of another caller has had its row accepted next to the first.
C29_Witness ==
    \E p, q \in Callers :
        /\ inflight[p].pc = "found"
        /\ inflight[q].pc = "done"
        /\ inflight[q].resp # NoResponse
        /\ inflight[q].user \in users
        /\ Cardinality(users) = 2

\* C29 witness: a Register holds a row whose username a stored record of
\* another email already has, and a Login has saved its row.
C29_WitnessUsername ==
    \E p, q \in Callers :
        /\ inflight[p].pc = "checked"
        /\ \E u \in users : /\ u.username = inflight[p].user.username
                            /\ u.email # inflight[p].user.email
                            /\ u.lastLoginAt # ZeroTime
        /\ inflight[q].pc = "done"
        /\ inflight[q].resp # NoResponse

(* Register's Create and its tokens *)

\* The tokens a response carries.
TokensOf(resp) ==
    IF resp = NoResponse THEN {} ELSE {resp.accessToken, resp.refreshToken}

\* C30: Register calls Create at most once; every token it hands out is for
\* the identifier of a row that this Create put into the store, and when
\* Create fails, or is not reached, it hands out none.
C30_CreateBeforeTokens ==
    last.op = "Register" =>
        /\ last.calls <= 1
        /\ \A tok \in TokensOf(last.resp) :
             /\ last.calls = 1
             /\ \E u \in last.after \ last.before :
                    /\ u.id = tok.user_id
                    /\ u = last.resp.user
        /\ (last.calls = 0 \/ last.after = last.before)
             => (last.err # NoError /\ TokensOf(last.resp) = {})

\* C30 witness: Create was called and refused the row, because its username
\* is taken under another email, and no token was handed out.
C30_Witness ==
    /\ last.op = "Register"
    /\ last.calls = 1
    /\ last.err = ErrDuplicatedKey
    /\ ~last.fault.write
    /\ ~last.fault.lookup
    /\ TokensOf(last.resp) = {}
    /\ last.before # {}

\* C30 witness: Create accepted the row and two tokens were handed out for
\* its identifier.
C30_WitnessAccepted ==
    /\ last.op = "Register"
    /\ last.calls = 1
    /\ Cardinality(TokensOf(last.resp)) = 2
    /\ Cardinality(last.after) = Cardinality(last.before) + 1

(* Register against a TokenService that may fail *)

\* Service.Register called with any store and token-service outcome.
CallRegisterWith ==
    \E req \in RegisterRequests, fault \in Faults, tokenFault \in TokenFaults :
        /\ nextID <= Len(UUIDs)
        /\ LET r == RegisterWith(users, req, fault, tokenFault,
                                 UUIDs[nextID], now, now)
           IN
            /\ tokenFault # "none" => r.err = ErrTokenService
            /\ users' = r.db
            /\ nextID' = IF r.db # users THEN nextID + 1 ELSE nextID
            /\ last' = [op |-> "Register", req |-> req, fault |-> fault,
                        tokenFault |-> tokenFault,
                        before |-> users, after |-> r.db, calls |-> r.creates,
                        err |-> r.err, resp |-> r.resp, tDone |-> now]
        /\ UNCHANGED <<now, accessTokenTTL, wallet, inflight, middleware>>

FaultyNext ==
    \/ Elapse
    \/ CallRegisterWith

FaultySpec == Init /\ [][FaultyNext]_vars

\* C31: when Register returns an error -- ErrUserExists, a hashing failure,
\* a Create failure or a token-generation failure after Create -- the store
\* holds no record that the call created.
C31_AllOrNothing ==
    (last.op = "Register" /\ last.err # NoError)
    => last.after \ last.before = {}

(* Login next to calls that remove and add records *)

\* The calls of StoreSpec together with repository.Delete.
ChurnNext ==
    \/ Elapse
    \/ \E p \in Callers : RegisterLookupFrom(p, StoreRegisterRequests)
    \/ \E p \in Callers : RegisterCreate(p)
    \/ \E p \in Callers : LoginLookup(p)
    \/ \E p \in Callers : LoginUpdate(p)
    \/ CallDelete

ChurnSpec == StoreInit /\ [][ChurnNext]_vars

\* The store write of a Login: no record is added, and a record that stays
\* differs from what it was in its last login at most.
OnlyLastLogin ==
    \A p \in Callers :
        LoginUpdate(p) =>
            /\ IDs(users') \subseteq IDs(users)
            /\ \A u \in users, v \in users' :
                 u.id = v.id => v = [u EXCEPT !.lastLoginAt = v.lastLoginAt]

\* C32: however Login interleaves with Delete, Update and Register calls on
\* the same store, its write adds no record -- a record deleted between its
\* read and its Update is not created again -- and changes no field but the
\* last login of the user logging in.
C32_LoginWritesLastLoginOnly == [][OnlyLastLogin]_vars

----------------------------------------------------------------------------
(* The gateway's rate limiter *)

\* rl.requests[key]: nil for a key the map does not hold.
Get(m, key) == IF key \in DOMAIN m THEN m[key] ELSE <<>>

\* rl.requests[key] = list.
Put(m, key, list) ==
    [k \in DOMAIN m \cup {key} |-> IF k = key THEN list ELSE m[k]]

\* The loop of Allow and cleanup: the requests made after windowStart, in
\* their order.
Filter(list, windowStart) ==
    SelectSeq(list, LAMBDA reqTime : reqTime > windowStart)

\* Mutant: the limit is compared with > and not with >=.
AllowOneMore(l, key, t) ==
    LET validRequests == Filter(Get(l.requests, key), t - l.window) IN
    IF Len(validRequests) > l.limit
    THEN [rl |-> [l EXCEPT !.requests = Put(@, key, validRequests)],
          ok |-> FALSE]
    ELSE [rl |-> [l EXCEPT !.requests = Put(@, key, Append(validRequests, t))],
          ok |-> TRUE]

\* Mutant: a denied call is recorded like an admitted one.
AllowRecordsDenied(l, key, t) ==
    LET validRequests == Filter(Get(l.requests, key), t - l.window) IN
    IF Len(validRequests) >= l.limit
    THEN [rl |-> [l EXCEPT !.requests = Put(@, key, Append(validRequests, t))],
          ok |-> FALSE]
    ELSE [rl |-> [l EXCEPT !.requests = Put(@, key, Append(validRequests, t))],
          ok |-> TRUE]

\* rateLimiter.Allow(key) on limiter l when time.Now() is t, under l.mutex
\* from its first statement to its return.
Allow(l, key, t) ==
    LET validRequests == Filter(Get(l.requests, key), t - l.window) IN
    IF Len(validRequests) >= l.limit
    THEN [rl |-> [l EXCEPT !.requests = Put(@, key, validRequests)],
          ok |-> FALSE]
    ELSE [rl |-> [l EXCEPT !.requests = Put(@, key, Append(validRequests, t))],
          ok |-> TRUE]

\* Mutant: a key is dropped as soon as its oldest request has left the
\* window.
cleanupByOldest(l, t) ==
    LET kept == {k \in DOMAIN l.requests :
                    /\ l.requests[k] # <<>>
                    /\ l.requests[k][1] > t - l.window}
    IN  [l EXCEPT !.requests = [k \in kept |-> l.requests[k]]]

\* rateLimiter.cleanup() when time.Now() is t, under l.mutex.
cleanup(l, t) ==
    LET kept == {k \in DOMAIN l.requests :
                    Filter(l.requests[k], t - l.window) # <<>>}
    IN  [l EXCEPT !.requests =
            [k \in kept |-> Filter(l.requests[k], t - l.window)]]

\* The limiters that are built, scaled down from the default (100, one
\* minute), and the keys requests come under: client addresses and user
\* identifiers.
Limits == 0..MaxLimit
Windows == {MaxWindow - 1, MaxWindow}
LimiterKeys == {"10.0.0.1", "u1"}

LimiterInit ==
    /\ now = 0
    /\ accessTokenTTL = Hour
    /\ users = {}
    /\ nextID = 1
    /\ last = [op |-> "none"]
    /\ wallet = NoWallet
    /\ inflight = NoCalls
    /\ \E limit \in Limits, window \in Windows :
        /\ rl = NewRateLimiter(limit, window)
        /\ shadow = NewRateLimiter(limit, window)
    /\ admitted = [k \in LimiterKeys |-> <<>>]
    /\ activeConnections = 0

\* The clock of the gateway moves on by a tick; what was admitted more than
\* a window ago is of no interval that is still to come.
LimiterTick ==
    /\ now < MaxClock
    /\ now' = now + 1
    /\ admitted' = [k \in LimiterKeys |->
                       SelectSeq(admitted[k],
                                 LAMBDA t : t >= now + 1 - rl.window)]
    /\ UNCHANGED <<accessTokenTTL, users, nextID, last, wallet, inflight,
                   rl, shadow, activeConnections>>

\* One Allow call.  The same call is made on shadow.  earlier: the admitted
\* calls of the key before this one; afterDenial: the call before it was a
\* denied one of the same key.
CallAllow ==
    \E key \in LimiterKeys :
        LET r == Allow(rl, key, now)
            sr == Allow(shadow, key, now)
        IN  /\ rl' = r.rl
            /\ shadow' = sr.rl
            /\ admitted' = IF r.ok
                           THEN [admitted EXCEPT ![key] = Append(@, now)]
                           ELSE admitted
            /\ last' = [op |-> "Allow", key |-> key, t |-> now,
                        ok |-> r.ok, shadowOk |-> sr.ok,
                        before |-> rl.requests, after |-> r.rl.requests,
                        earlier |-> admitted[key],
                        afterDenial |-> /\ last.op = "Allow"
                                        /\ last.key = key
                                        /\ ~last.ok]
            /\ UNCHANGED <<now, accessTokenTTL, users, nextID, wallet,
                           inflight, activeConnections>>

\* One run of cleanup, whenever the ticker's goroutine gets to it.
CallCleanup ==
    /\ rl' = cleanup(rl, now)
    /\ last' = [op |-> "cleanup", t |-> now, before |-> rl.requests,
                after |-> cleanup(rl, now).requests]
    /\ UNCHANGED <<now, accessTokenTTL, users, nextID, wallet, inflight,
                   shadow, admitted, activeConnections>>

LimiterNext ==
    \/ LimiterTick
    \/ CallAllow
    \/ CallCleanup

LimiterSpec == LimiterInit /\ [][LimiterNext]_vars

\* How many of the times in list lie in the set of instants span.
CountIn(list, span) == Cardinality({i \in DOMAIN list : list[i] \in span})

\* C33 as stated: for every key, the Allow calls that returned true at
\* instants within any interval of length window, its two ends included,
\* are at most limit, and the stored list never holds more than limit
\* entries.  The intervals that end now are looked at in every state, which
\* is every interval by the time its end has passed.
C33_LimitPerInterval ==
    \A key \in LimiterKeys :
        /\ CountIn(admitted[key], (now - rl.window)..now) <= rl.limit
        /\ Len(Get(rl.requests, key)) <= rl.limit

\* C33, amended: for every key, the Allow calls that returned true at
\* instants within any interval of length window that leaves out its
\* earlier end are at most limit, and the stored list never holds more
\* than limit entries.
C33_LimitPerWindow ==
    \A key \in LimiterKeys :
        /\ CountIn(admitted[key], (now - rl.window + 1)..now) <= rl.limit
        /\ Len(Get(rl.requests, key)) <= rl.limit

\* C33 witness: a key that had used up its limit was admitted again at the
\* very instant its oldest request left the window; it has limit admitted
\* calls in the window and one more exactly a window ago.
C33_Witness ==
    /\ last.op = "Allow"
    /\ last.ok
    /\ last.t = now
    /\ rl.limit = MaxLimit
    /\ CountIn(admitted[last.key], (now - rl.window + 1)..now) = rl.limit
    /\ CountIn(admitted[last.key], {now - rl.window}) > 0
    /\ Len(Get(last.before, last.key)) < rl.limit

----------------------------------------------------------------------------
(* The gateway's middleware chain *)

StatusTooManyRequests == 429

\* c.Get("user_id") on the keys set in the request context so far.
UserIDKey(keys) == {k[2] : k \in {x \in keys : x[1] = "user_id"}}

\* The key RateLimitWithLimiter counts a request under: the client's
\* address, or the user_id when the context holds one.
RateLimitKey(keys, clientIP) ==
    IF UserIDKey(keys) # {} THEN CHOOSE id \in UserIDKey(keys) : TRUE
    ELSE clientIP

\* The handler RateLimitWithLimiter(l) returns, when time.Now() is t: the
\* limiter after the call and whether the chain goes on.
RateLimitWithLimiter(l, keys, clientIP, t) ==
    LET key == RateLimitKey(keys, clientIP)
        r == Allow(l, key, t)
    IN  [rl |-> r.rl, key |-> key, next |-> r.ok,
         status |-> IF r.ok THEN StatusOK ELSE StatusTooManyRequests]

\* The addresses requests come from.
ClientIPs == LimiterKeys \ {u.id : u \in {FirstRow}}

\* The gateway in service: one account, the tokens its Register returned in
\* the client's hands, and the limiter new.
ChainInit ==
    /\ now = 0
    /\ accessTokenTTL = Hour
    /\ users = {FirstRow}
    /\ nextID = 2
    /\ last = [op |-> "none"]
    /\ wallet = [NoWallet EXCEPT
                    !.access = GenerateAccessToken(FirstRow.id, 0, 0),
                    !.refresh = GenerateRefreshToken(FirstRow.id, 0, 0),
                    !.owner = FirstRow.id]
    /\ inflight = NoCalls
    /\ \E limit \in 1..MaxLimit :
        /\ rl = NewRateLimiter(limit, MaxWindow)
        /\ shadow = NewRateLimiter(limit, MaxWindow)
    /\ admitted = [k \in LimiterKeys |-> <<>>]
    /\ activeConnections = 0

\* A request to a route of the protected group, through the chain
\* setupRouter builds: the global RateLimit first, then the group's JWTAuth,
\* then the route's handler.
ServeProtected ==
    \E header \in {<<>>} \cup {<<"Bearer", tok>> : tok \in SessionTokens},
       clientIP \in ClientIPs :
        LET limited == RateLimitWithLimiter(rl, {}, clientIP, now)
            c == JWTAuth(users, header, FALSE, FALSE, now, now)
        IN  /\ rl' = limited.rl
            /\ shadow' = Allow(shadow, limited.key, now).rl
            /\ admitted' = IF limited.next
                           THEN [admitted EXCEPT ![limited.key] =
                                    Append(@, now)]
                           ELSE admitted
            /\ last' = [op |-> "GET /user/profile", header |-> header,
                        clientIP |-> clientIP, key |-> limited.key,
                        limited |-> ~limited.next,
                        http |-> IF limited.next THEN c
                                 ELSE [status |-> StatusTooManyRequests,
                                       error |-> "Rate limit exceeded",
                                       aborted |-> TRUE, keys |-> {},
                                       handler |-> FALSE, rpcs |-> 0]]
            /\ UNCHANGED <<now, accessTokenTTL, users, nextID, wallet,
                           inflight, activeConnections>>

ChainNext ==
    \/ LimiterTick
    \/ ServeProtected
    \/ CallCleanup

ChainSpec == ChainInit /\ [][ChainNext]_vars

\* C34: a request to a protected route that carries a valid bearer token
\* is counted by the rate limiter under the identifier of the token's user,
\* not under the address of its client.
C34_CountedUnderUser ==
    (last.op = "GET /user/profile" /\ last.http.handler)
    => (/\ last.key = wallet.owner
        /\ last.key # last.clientIP)

----------------------------------------------------------------------------
(* Request logging *)

sensitiveEndpoints ==
    {"/api/v1/auth/login", "/api/v1/auth/register",
     "/api/v1/user/change-password"}

\* isSensitiveEndpoint: the string is one of the three, character for
\* character.
isSensitiveEndpoint(path) == path \in sensitiveEndpoints

\* What RequestLogging hands to logrus for a request: the fields of the one
\* entry it writes, or none for a health check.  urlPath and raw are
\* c.Request.URL.Path and RawQuery, body what the client sent, status and
\* keys what the rest of the chain left in the writer and the context.
RequestLogging(method, urlPath, raw, body, status, keys) ==
    IF urlPath = "/health" THEN [f \in {} |-> ""]
    ELSE
    LET requestBody == IF method \in {"POST", "PUT", "PATCH"} THEN body
                       ELSE ""
        path == IF raw # "" THEN urlPath \o "?" \o raw ELSE urlPath
        names == {"client_ip", "method", "path", "status_code", "latency",
                  "user_agent", "request_size"}
                   \cup (IF UserIDKey(keys) # {} THEN {"user_id"} ELSE {})
                   \cup (IF requestBody # "" /\ ~isSensitiveEndpoint(path)
                         THEN {"request_body"} ELSE {})
    IN  [f \in names |->
            CASE f = "method" -> method
              [] f = "path" -> path
              [] f = "status_code" -> ToString(status)
              [] f = "user_id" -> CHOOSE id \in UserIDKey(keys) : TRUE
              [] f = "request_body" -> requestBody
              [] OTHER -> ""]

\* Requests: methods, paths, query strings and bodies.
Methods == {"GET", "POST", "PUT", "PATCH", "DELETE"}
URLPaths == sensitiveEndpoints \cup {"/health", "/api/v1/bots"}
RawQueries == {"", "next=home"}
Bodies == {"", "{\"password\":\"password-1\"}"}

\* One request through RequestLogging.
LogRequest ==
    \E method \in Methods, urlPath \in URLPaths, raw \in RawQueries,
       body \in Bodies,
       status \in {StatusOK, StatusUnauthorized, StatusInternalServerError},
       keys \in {{}, {<<"user_id", FirstRow.id>>}} :
        /\ last' = [op |-> "RequestLogging", method |-> method,
                    urlPath |-> urlPath, raw |-> raw, body |-> body,
                    status |-> status, keys |-> keys,
                    fields |-> RequestLogging(method, urlPath, raw, body,
                                              status, keys)]
        /\ UNCHANGED <<now, accessTokenTTL, users, nextID, wallet, inflight,
                       middleware>>

LoggingNext == LogRequest

LoggingSpec == Init /\ [][LoggingNext]_vars

\* C35: for a POST, PUT or PATCH request whose URL path is one of the three
\* sensitive endpoints, with a query string or without, RequestLogging
\* writes no request_body field.
C35_SensitiveBodyNotLogged ==
    (/\ last.op = "RequestLogging"
     /\ last.method \in {"POST", "PUT", "PATCH"}
     /\ last.urlPath \in sensitiveEndpoints)
    => "request_body" \notin DOMAIN last.fields

\* The times a stored list holds.
TimesIn(list) == {list[i] : i \in DOMAIN list}

\* C36: a denied Allow call stores no time; a call is admitted exactly when
\* fewer than limit admitted calls of its key lie within the last window,
\* however many were denied in between; and a call on one key leaves the
\* stored requests of every other key as they were.
C36_DeniedRecordsNothing ==
    last.op = "Allow" =>
        /\ ~last.ok =>
             /\ TimesIn(Get(last.after, last.key))
                  \subseteq TimesIn(Get(last.before, last.key))
             /\ Len(Get(last.after, last.key))
                  <= Len(Get(last.before, last.key))
        /\ last.ok <=>
             CountIn(last.earlier, (last.t - rl.window + 1)..last.t)
               < rl.limit
        /\ \A k \in LimiterKeys \ {last.key} :
             /\ k \in DOMAIN last.after <=> k \in DOMAIN last.before
             /\ Get(last.after, k) = Get(last.before, k)

\* C36 witness: a key was admitted straight after a denied call, the other
\* key having requests stored.
C36_Witness ==
    /\ last.op = "Allow"
    /\ last.ok
    /\ last.afterDenial
    /\ rl.limit > 0
    /\ \E k \in LimiterKeys \ {last.key} : Get(last.before, k) # <<>>

\* C36 witness: a call was denied with the key's limit used up and another
\* key's requests stored.
C36_WitnessDenied ==
    /\ last.op = "Allow"
    /\ ~last.ok
    /\ rl.limit > 0
    /\ Len(Get(last.before, last.key)) = rl.limit
    /\ \E k \in LimiterKeys \ {last.key} : Get(last.before, k) # <<>>

\* C37: with cleanup runs put in at any points, every Allow call returns
\* what it returns in the run without them; and after a cleanup run no key
\* maps to an empty list and no time kept is a window old or older.
C37_CleanupTransparent ==
    /\ last.op = "Allow" => last.ok = last.shadowOk
    /\ last.op = "cleanup" =>
         \A k \in DOMAIN last.after :
             /\ last.after[k] # <<>>
             /\ \A t \in TimesIn(last.after[k]) : t > last.t - rl.window

\* C37 witness: an Allow call was denied by a limiter from which cleanup has
\* taken a key that the limiter without cleanup still holds.
C37_Witness ==
    /\ last.op = "Allow"
    /\ ~last.ok
    /\ rl.limit > 0
    /\ DOMAIN rl.requests # DOMAIN shadow.requests

\* C37 witness: a cleanup run dropped one key and kept part of the list of
\* another.
C37_WitnessCleanup ==
    /\ last.op = "cleanup"
    /\ DOMAIN last.after # DOMAIN last.before
    /\ \E k \in DOMAIN last.after :
          Len(last.after[k]) < Len(last.before[k])

----------------------------------------------------------------------------
(* The Metrics middleware under Recovery *)

\* The statuses a handler behind Metrics writes.
HandlerStatuses == {StatusOK, StatusCreated, StatusUnauthorized}

\* Metrics up to c.Next(): the gauge is incremented and the rest of the
\* chain starts.
MetricsEnter(p) ==
    /\ inflight[p].pc = "idle"
    /\ activeConnections' = activeConnections + 1
    /\ inflight' = [inflight EXCEPT ![p] = [Idle EXCEPT !.pc = "inside"]]
    /\ UNCHANGED <<now, accessTokenTTL, users, nextID, last, wallet, rl,
                   shadow, admitted>>

\* c.Next() returns: Metrics observes the request and decrements the gauge.
MetricsReturn(p) ==
    /\ inflight[p].pc = "inside"
    /\ \E status \in HandlerStatuses :
        last' = [op |-> "Metrics", caller |-> p, status |-> status,
                 panicked |-> FALSE, observed |-> TRUE]
    /\ activeConnections' = activeConnections - 1
    /\ inflight' = [inflight EXCEPT ![p] = Idle]
    /\ UNCHANGED <<now, accessTokenTTL, users, nextID, wallet, rl, shadow,
                   admitted>>

\* A handler below panics: the panic leaves Metrics at its c.Next() call,
\* none of the statements after it runs, and the deferred recover of the
\* Recovery middleware outside answers 500.
MetricsPanic(p) ==
    /\ inflight[p].pc = "inside"
    /\ activeConnections < MaxPanics
    /\ last' = [op |-> "Metrics", caller |-> p,
                status |-> StatusInternalServerError,
                panicked |-> TRUE, observed |-> FALSE]
    /\ inflight' = [inflight EXCEPT ![p] = Idle]
    /\ UNCHANGED <<now, accessTokenTTL, users, nextID, wallet, middleware>>

MetricsNext ==
    \/ \E p \in Callers : MetricsEnter(p)
    \/ \E p \in Callers : MetricsReturn(p)
    \/ \E p \in Callers : MetricsPanic(p)

MetricsSpec == Init /\ [][MetricsNext]_vars

\* The requests inside Metrics.
Inside == {p \in Callers : inflight[p].pc = "inside"}

\* C38: the gauge is the number of requests inside Metrics -- every
\* increment has its decrement when the request ends, also when a handler
\* panics and Recovery recovers -- and is 0 when none is in flight.
C38_GaugeCountsInFlight ==
    /\ activeConnections = Cardinality(Inside)
    /\ Inside = {} => activeConnections = 0

====
